---------------------------- MODULE Spec2Model ----------------------------
(***************************************************************************)
(* Model of the location and comparable resolution engine of               *)
(* ai-marketplace-monitor (src/src/ai_marketplace_monitor/mysql_compare.py)*)
(*                                                                         *)
(* Text is a sequence of one-character strings.  An Optional[X] of the     *)
(* source is a sequence: <<>> is None and <<x>> is the value x.            *)
(***************************************************************************)
EXTENDS Integers, Sequences, FiniteSets, TLC

VARIABLES
    config,     \* MySQLConfig the engine was constructed with
    cache,      \* process-wide cache of utils: key -> stored value
    pc,         \* position of the single thread of control
    caller,     \* operation that called _resolve_location
    listing,    \* listing being processed: [location, beds, baths, year_built]
    geo,        \* the most recent _geocode_city_state_to_zip call of the
                \* operation in progress
    geoPrev,    \* the geocoder call before it
    rl,         \* locals and outcome of the _resolve_location call
    sc,         \* locals and outcome of the _fetch_sales_comps call
    fc,         \* locals and outcome of the fetch_comparison call
    fb,         \* locals and outcome of the insert_fb_listing call
    db,         \* the listings and history tables of the store, the open
                \* transaction and the clock of the store
    ev,         \* locals and outcome of the OllamaMySQLBackend.evaluate call
    pf,         \* a function applied on its own: its argument and its result
    cm,         \* the Craigslist monitor: the state file, the locals of
                \* run_once and what the runs have sent
    mc          \* the connection of a MySQLCompare object: self._client and
                \* what _get_client and close have done so far

vars == <<config, cache, pc, caller, listing, geo, geoPrev, rl, sc, fc, fb, db,
          ev, pf, cm, mc>>

(***************************************************************************)
(* Bounds of the model.                                                    *)
(***************************************************************************)
\* county and region identifiers range over 0..MaxId
MaxId == 1
\* a comparable query returns 0..MaxRows rows
MaxRows == 1

(***************************************************************************)
(* Optional values.                                                        *)
(***************************************************************************)
None == <<>>
Some(x) == <<x>>
IsNone(o) == o = <<>>
IsSome(o) == o # <<>>
Val(o) == o[1]

(***************************************************************************)
(* Characters and the string methods the source uses.                      *)
(***************************************************************************)
Digit == {"0", "1", "2", "3", "4", "5", "6", "7", "8", "9"}
UpperSeq == <<"A","B","C","D","E","F","G","H","I","J","K","L","M",
              "N","O","P","Q","R","S","T","U","V","W","X","Y","Z">>
LowerSeq == <<"a","b","c","d","e","f","g","h","i","j","k","l","m",
              "n","o","p","q","r","s","t","u","v","w","x","y","z">>
Upper == {UpperSeq[i] : i \in DOMAIN UpperSeq}
Lower == {LowerSeq[i] : i \in DOMAIN LowerSeq}
Alpha == Upper \cup Lower
\* \w of the regular expressions
IsWord(c) == c \in Digit \cup Alpha \cup {"_"}
\* \s of the regular expressions, and what str.strip() removes
IsSpace(c) == c \in {" ", "\t", "\n"}

\* str.lower() on one character
LowerChar(c) ==
    IF c \in Upper
    THEN LowerSeq[CHOOSE i \in DOMAIN UpperSeq : UpperSeq[i] = c]
    ELSE c

\* str.lower()
ToLower(s) == [i \in DOMAIN s |-> LowerChar(s[i])]

\* str.isalpha(): non-empty and every character alphabetic
IsAlphaStr(s) == Len(s) > 0 /\ \A i \in DOMAIN s : s[i] \in Alpha

AllDigits(s, lo, hi) == \A i \in lo..hi : i \in DOMAIN s /\ s[i] \in Digit

\* s[lo..hi], empty when lo > hi
Slice(s, lo, hi) == IF lo > hi THEN <<>> ELSE SubSeq(s, lo, hi)

\* str.strip(chars): drop leading and trailing characters of the set
StripSet(s, chars) ==
    LET keep == {i \in DOMAIN s : s[i] \notin chars}
    IN  IF keep = {} THEN <<>>
        ELSE Slice(s, CHOOSE i \in keep : \A j \in keep : i <= j,
                      CHOOSE i \in keep : \A j \in keep : j <= i)

\* str.strip()
Strip(s) == StripSet(s, {" ", "\t", "\n"})

\* the elements of a set of positions, in increasing order
Ascending(positions) ==
    [k \in 1..Cardinality(positions) |->
        CHOOSE i \in positions : Cardinality({j \in positions : j <= i}) = k]

\* re.sub(r"\s+", " ", s): every run of whitespace becomes one blank
CollapseSpaces(s) ==
    LET kept == {i \in DOMAIN s : ~IsSpace(s[i]) \/ i = 1 \/ ~IsSpace(s[i - 1])}
        order == Ascending(kept)
    IN  [k \in DOMAIN order |-> IF IsSpace(s[order[k]]) THEN " " ELSE s[order[k]]]

\* re.split(r",|\s{2,}", s) without its empty pieces (the caller drops them):
\* a comma, or a run of two or more whitespace characters, separates the pieces
SplitLocation(s) ==
    LET delim == {i \in DOMAIN s :
                    \/ s[i] = ","
                    \/ /\ IsSpace(s[i])
                       /\ \/ (i > 1 /\ IsSpace(s[i - 1]))
                          \/ (i < Len(s) /\ IsSpace(s[i + 1]))}
        starts == {i \in DOMAIN s \ delim : i = 1 \/ (i - 1) \in delim}
        last(i) == CHOOSE j \in i..Len(s) :
                      /\ (i..j) \cap delim = {}
                      /\ (j = Len(s) \/ (j + 1) \in delim)
        order == Ascending(starts)
    IN  [k \in DOMAIN order |-> SubSeq(s, order[k], last(order[k]))]

\* re.search(r"\b(\d{5})(?:-\d{4})?\b", s).group(1), None without a match.
\* The optional extension never changes group 1: when it does not match, the
\* five digits must still end at a word boundary.
ZipMatchAt(s, i) ==
    /\ i + 4 <= Len(s)
    /\ AllDigits(s, i, i + 4)
    /\ (i = 1 \/ ~IsWord(s[i - 1]))
    /\ (i + 5 > Len(s) \/ ~IsWord(s[i + 5]))

ZipSearch(s) ==
    LET hits == {i \in DOMAIN s : ZipMatchAt(s, i)}
    IN  IF hits = {} THEN None
        ELSE LET i == CHOOSE h \in hits : \A k \in hits : h <= k
             IN  Some(SubSeq(s, i, i + 4))

\* re.match(r"^\d{5}(?:-\d{4})?$", postcode) on a stripped postcode
ValidPostcode(p) ==
    \/ Len(p) = 5 /\ AllDigits(p, 1, 5)
    \/ Len(p) = 10 /\ AllDigits(p, 1, 5) /\ p[6] = "-" /\ AllDigits(p, 7, 10)

\* _safe_table: re.match(r"^[a-zA-Z0-9_]+$", name); "$" also matches just
\* before one trailing newline
SafeTable(name) ==
    LET body == IF Len(name) > 1 /\ name[Len(name)] = "\n"
                THEN SubSeq(name, 1, Len(name) - 1) ELSE name
    IN  Len(body) > 0 /\ \A i \in DOMAIN body : body[i] \in Digit \cup Alpha \cup {"_"}

\* line 695: the stripped, non-empty pieces of the location
LocationPieces(loc) ==
    SelectSeq([i \in DOMAIN SplitLocation(loc) |-> Strip(SplitLocation(loc)[i])],
              LAMBDA p : Len(p) > 0)

\* lines 694-701: city and state from the pieces
CityState(parts, zip_code) ==
    IF Len(parts) >= 2 /\ Len(parts[Len(parts)]) = 2 /\ IsAlphaStr(parts[Len(parts)])
    THEN [city |-> Some(parts[1]), state |-> Some(parts[Len(parts)]), zip |-> zip_code]
    ELSE IF Len(parts) = 1 /\ IsNone(zip_code)
    THEN [city |-> Some(parts[1]), state |-> None, zip |-> zip_code]
    ELSE [city |-> None, state |-> None, zip |-> zip_code]

\* _parse_location_parts: (city, state, zip) of a location text
ParseStripped(loc) == CityState(LocationPieces(loc), ZipSearch(loc))
ParseLocationParts(location) == ParseStripped(Strip(location))

(***************************************************************************)
(* Inputs of the model: texts and configurations.                          *)
(***************************************************************************)
TxtErie == <<"E","r","i","e">>
TxtPA == <<"P","A">>
Zip16509 == <<"1","6","5","0","9">>
Zip16428 == <<"1","6","4","2","8">>
Zip16509Plus4 == <<"1","6","5","0","9","-","1","2","3","4">>
TxtBadPostcode == <<"1","6","5","0">>
TxtApiKey == <<"k","e","y">>
TxtBlank == <<" ">>

\* listing.location values
LocCityStateZip == <<"E","r","i","e",","," ","P","A"," ","1","6","5","0","9">>
LocZipPlus4 == <<"1","6","5","0","9","-","1","2","3","4">>
LocCityState == <<"E","r","i","e",","," ","P","A">>
LocCityStateLower == <<" ","e","r","i","e"," "," ","p","a">>
LocCityOnly == <<"E","r","i","e">>
LocNineDigits == <<"1","6","5","0","9","1","2","3","4">>
LocEmpty == <<>>
LocStreetThenZip == <<"1","2","3","4","5"," ","R","d",","," ","1","6","4","2","8">>
LocZipCityState == <<"1","6","5","0","9",","," ","E","r","i","e",","," ","P","A">>
\* no digits, and neither a city nor a state by _parse_location_parts
LocNoState == <<"E","r","i","e",","," ","P","e","n","n">>
LocSeparators == <<" ",","," "," ">>

Locations ==
    {LocCityStateZip, LocZipPlus4, LocCityState, LocCityStateLower,
     LocCityOnly, LocNineDigits, LocEmpty, LocStreetThenZip, LocZipCityState,
     LocNoState, LocSeparators}

\* table names of the configuration
TblZipCounty == <<"z","i","p","_","c","o","u","n","t","y">>
TblCounties == <<"c","o","u","n","t","i","e","s">>
TblProperties == <<"p","r","o","p","e","r","t","i","e","s">>
TblSales == <<"s","a","l","e","s">>
TblUnsafe == <<"x",";"," ","D","R","O","P">>
TblFbListings == <<"f","b","_","l","i","s","t","i","n","g","s">>
TblHistory == <<"f","b","_","h","i","s","t">>
TblLotRents == <<"l","o","t","_","r","e","n","t","s">>
\* a name that ends with a newline
TblFbNewline == TblFbListings \o <<"\n">>

\* column names of the configuration
ColTitle == <<"t","i","t","l","e">>
ColPrice == <<"p","r","i","c","e">>
ColAskingPrice == <<"a","s","k","i","n","g","_","p","r","i","c","e">>
ColZip == <<"z","i","p">>
ColCountyId == <<"c","o","u","n","t","y","_","i","d">>
ColRegionId == <<"r","e","g","i","o","n","_","i","d">>
ColAvgRent == <<"a","v","g","_","r","e","n","t">>

\* MySQLConfig: the fields the modelled operations read, at their defaults
\* but for use_sales_comps (on, so that comparables are searched) and the API
\* key (set, so that the live lookup can run)
DefaultConfig ==
    [use_sales_comps |-> TRUE,
     sales_table |-> TblSales,
     properties_table |-> TblProperties,
     zip_county_table |-> TblZipCounty,
     counties_table |-> TblCounties,
     year_tolerance |-> 5,
     geocode_fallback |-> TRUE,
     geocode_geoapify_api_key |-> Some(TxtApiKey),
     geocode_rate_limit_seconds |-> 1,
     max_rows |-> 10,
     enabled |-> TRUE,
     comparison_query |-> None,
     comparison_table |-> None,
     title_column |-> ColTitle,
     price_column |-> Some(ColPrice),
     lot_rent_table |-> None,
     lot_rent_zip_column |-> ColZip,
     lot_rent_county_column |-> ColCountyId,
     lot_rent_region_column |-> ColRegionId,
     lot_rent_value_column |-> ColAvgRent,
     insert_into_fb |-> TRUE,
     insert_all_evaluated |-> TRUE,
     output_format |-> "full",
     fb_listings_table |-> TblFbListings,
     fb_listing_history_table |-> None]

(***************************************************************************)
(* _geocode_city_state_to_zip                                              *)
(***************************************************************************)
\* the query text of line 231
GeocodeQuery(city, state) ==
    StripSet(city \o <<",">> \o state \o <<",", "U", "S", "A">>, {" ", ","})

\* the normalized text of line 234
Normalize(query) == Strip(CollapseSpaces(ToLower(query)))

\* the cache key of line 235
GeocodeCacheKey(query) == <<"geocode_zip", Normalize(query)>>

\* line 322: city or "", state or ""
OrEmpty(o) == IF IsSome(o) THEN Val(o) ELSE <<>>
ArgsOf(parts) == <<OrEmpty(parts.city), OrEmpty(parts.state)>>

\* a function, evaluated once at every argument
Tabulate(f) == f @@ f

\* lines 312-314 and 320 for every location of the model
ParseTable == Tabulate([loc \in Locations |-> ParseLocationParts(Strip(loc))])
LocInfo(loc, parts) ==
    [regex |-> ZipSearch(Strip(loc)), parts |-> parts, args |-> ArgsOf(parts)]
LocTable == Tabulate([loc \in Locations |-> LocInfo(loc, ParseTable[loc])])

\* the arguments the model calls the geocoder with: those of a direct call and
\* the (city or "", state or "") line 322 passes for each location
GeoArgs == {<<TxtErie, TxtPA>>, <<ToLower(TxtErie), TxtPA>>, <<<<>>, <<>>>>}
AllArgs == GeoArgs \cup {LocTable[loc].args : loc \in Locations}

\* lines 231-235 for every argument pair of the model
QueryTable == Tabulate([a \in AllArgs |-> GeocodeQuery(a[1], a[2])])
GeoTable ==
    Tabulate([a \in AllArgs |-> [query |-> QueryTable[a], key |-> GeocodeCacheKey(QueryTable[a])]])

(***************************************************************************)
(* The geocode cache (utils.cache): for every key, the stored value or     *)
(* None when the key is absent.  A stored zip is its text; the stored      *)
(* "no result" marker is the empty text, the falsy value line 239 turns    *)
(* into None.                                                              *)
(***************************************************************************)
NoResultMarker == <<>>

CacheKeys == {GeoTable[a].key : a \in AllArgs}

\* cache.get(key): None when the key is absent
CacheGet(ch, key) == ch[key]

\* cache.set(key, value)
CacheSet(ch, key, value) == [ch EXCEPT ![key] = Some(value)]

EmptyCache == Tabulate([k \in CacheKeys |-> None])

\* line 239: the answer for a cached value, None for a falsy one
CachedAnswerNoMarker(cached) == Some(cached)
CachedAnswer(cached) == IF Len(cached) > 0 THEN Some(cached) ELSE None

\* max(0, geocode_rate_limit_seconds) of lines 274, 288 and 299
RateLimitSleepNoMax(cfg) == cfg.geocode_rate_limit_seconds
RateLimitSleep(cfg) ==
    IF cfg.geocode_rate_limit_seconds > 0 THEN cfg.geocode_rate_limit_seconds ELSE 0

\* line 277: (feature.get("postcode") or "").strip()
Postcode(feature) == Strip(IF IsSome(feature) THEN Val(feature) ELSE <<>>)

\* lines 276-279: the zip of the first result with a valid postal code
FirstInTakesLast(results, ok) ==
    IF ok = {} THEN None
    ELSE Some(SubSeq(Postcode(results[CHOOSE h \in ok : \A k \in ok : h >= k]), 1, 5))
FirstIn(results, ok) ==
    IF ok = {} THEN None
    ELSE Some(SubSeq(Postcode(results[CHOOSE h \in ok : \A k \in ok : h <= k]), 1, 5))
FirstValidZip(results) ==
    FirstIn(results, {i \in DOMAIN results : ValidPostcode(Postcode(results[i]))})

\* "postcode" fields of the results of a response
ResultLists ==
    {<<>>,
     <<None, Some(TxtBadPostcode)>>,
     <<Some(TxtBadPostcode), Some(Zip16509Plus4), Some(Zip16428)>>}

\* what the try block of lines 249-293 meets: the import fails, requests.get
\* raises, raise_for_status raises, the body is no JSON object, or a response
\* whose results hold the zip found (None when none is valid)
HttpOutcomes ==
    {[kind |-> k, results |-> <<>>, found |-> None] :
        k \in {"import_error", "network_error", "status_error", "json_error"}}
    \cup {[kind |-> "ok", results |-> r, found |-> FirstValidZip(r)] : r \in ResultLists}

\* the faults of one call; cache.set is reached only with a zip found
GeoEnvs ==
    {e \in [getFails : BOOLEAN, http : HttpOutcomes, setFails : BOOLEAN] :
        e.setFails => IsSome(e.http.found)}

EventSet(events) == {events[i] : i \in DOMAIN events}

\* lines 231-235 of one call, with the cache entry held for its key
GeoCall(city, state, ch, entry) ==
    [city |-> city, state |-> state, query |-> entry.query, key |-> entry.key,
     held |-> CacheGet(ch, entry.key), before |-> ch]

\* what one call did: its arguments, the cache entry held for its key when it
\* was made, the faults it met, its answer and its effects in order; results
\* is the result list of the response when a zip was taken from it
GeoRecord(c, env, kind, ret, ch2, events, slept) ==
    [called |-> TRUE, city |-> c.city, state |-> c.state,
     key |-> c.key, held |-> c.held,
     getFailed |-> env.getFails /\ "cache_get" \in EventSet(events),
     setFailed |-> env.setFails /\ "cache_set" \in EventSet(events),
     httpKind |-> kind,
     results |-> IF kind = "ok" /\ IsSome(ret) THEN env.http.results ELSE <<>>,
     ret |-> ret, before |-> c.before, cache |-> ch2, events |-> events,
     slept |-> slept, raised |-> FALSE]

\* lines 294-300: an exception of the try block is logged, then sleep, None
LiveFailureRaises(c, cfg, env, events) ==
    [GeoRecord(c, env, env.http.kind, None, c.before, events, <<>>)
        EXCEPT !.raised = TRUE]
LiveFailure(c, cfg, env, events) ==
    GeoRecord(c, env, env.http.kind, None, c.before,
              events \o <<"sleep">>, <<RateLimitSleep(cfg)>>)

\* lines 269-275: an empty result list
LiveNoResults(c, cfg, env, events) ==
    GeoRecord(c, env, env.http.kind, None, c.before,
              events \o <<"sleep">>, <<RateLimitSleep(cfg)>>)

\* lines 290-300: no result carries a valid postal code
LiveNoPostcode(c, cfg, env, events) ==
    GeoRecord(c, env, env.http.kind, None, c.before,
              events \o <<"sleep">>, <<RateLimitSleep(cfg)>>)

\* lines 279-289: cache the zip (an error of cache.set is swallowed), sleep,
\* return it
LiveFound(c, cfg, env, events, zip_code) ==
    GeoRecord(c, env, env.http.kind, Some(zip_code),
              IF env.setFails THEN c.before ELSE CacheSet(c.before, c.key, zip_code),
              events \o <<"cache_set", "sleep">>, <<RateLimitSleep(cfg)>>)

\* lines 249-300: the live lookup, after a cache miss with an API key set
GeocodeLive(c, cfg, env, events) ==
    IF env.http.kind = "import_error"
    THEN LiveFailure(c, cfg, env, events)
    ELSE IF env.http.kind # "ok"
    THEN LiveFailure(c, cfg, env, events \o <<"http">>)
    ELSE IF env.http.results = <<>>
    THEN LiveNoResults(c, cfg, env, events \o <<"http">>)
    ELSE IF IsSome(env.http.found)
    THEN LiveFound(c, cfg, env, events \o <<"http">>, Val(env.http.found))
    ELSE LiveNoPostcode(c, cfg, env, events \o <<"http">>)

\* line 242: getattr(config, "geocode_geoapify_api_key", None) or ""
ApiKey(cfg) ==
    IF IsSome(cfg.geocode_geoapify_api_key) THEN Val(cfg.geocode_geoapify_api_key) ELSE <<>>

GeocodeFromWithoutKeyCheck(c, cfg, env) ==
    IF c.city = <<>> /\ c.state = <<>>
    THEN GeoRecord(c, env, "none", None, c.before, <<>>, <<>>)
    ELSE IF c.query = <<>> \/ c.query = <<",", "U", "S", "A">>
    THEN GeoRecord(c, env, "none", None, c.before, <<>>, <<>>)
    ELSE IF ~env.getFails /\ IsSome(c.held)
    THEN GeoRecord(c, env, "none", CachedAnswer(Val(c.held)), c.before,
                   <<"cache_get">>, <<>>)
    ELSE GeocodeLive(c, cfg, env, <<"cache_get">>)

\* lines 229-300 of a call whose query and key are those of c
GeocodeFrom(c, cfg, env) ==
    IF c.city = <<>> /\ c.state = <<>>
    THEN GeoRecord(c, env, "none", None, c.before, <<>>, <<>>)
    ELSE IF c.query = <<>> \/ c.query = <<",", "U", "S", "A">>
    THEN GeoRecord(c, env, "none", None, c.before, <<>>, <<>>)
    ELSE IF ~env.getFails /\ IsSome(c.held)
    THEN GeoRecord(c, env, "none", CachedAnswer(Val(c.held)), c.before,
                   <<"cache_get">>, <<>>)
    ELSE IF Strip(ApiKey(cfg)) = <<>>
    THEN GeoRecord(c, env, "none", None, c.before, <<"cache_get">>, <<>>)
    ELSE GeocodeLive(c, cfg, env, <<"cache_get">>)

\* lines 227-300
GeocodeCityStateToZip(city, state, cfg, ch, env) ==
    GeocodeFrom(GeoCall(city, state, ch, GeoTable[<<city, state>>]), cfg, env)

\* no geocoder call made yet
NoGeo ==
    [called |-> FALSE, city |-> <<>>, state |-> <<>>,
     key |-> <<"geocode_zip", <<>>>>, held |-> None, getFailed |-> FALSE,
     setFailed |-> FALSE, httpKind |-> "none", results |-> <<>>, ret |-> None,
     before |-> EmptyCache, cache |-> EmptyCache,
     events |-> <<>>, slept |-> <<>>, raised |-> FALSE]

\* what is kept of the call before the most recent one
GeoBrief(g) ==
    [called |-> g.called, city |-> g.city, state |-> g.state,
     http |-> "http" \in EventSet(g.events), ret |-> g.ret,
     cacheFault |-> g.getFailed \/ g.setFailed]

(***************************************************************************)
(* The relational store.  One lookup of _resolve_location either raises    *)
(* (table absent, query error, a value int() rejects), finds no row, or    *)
(* finds a row with an identifier.                                         *)
(***************************************************************************)
Ids == 0..MaxId

DbOutcomes ==
    {[k |-> "error", id |-> 0], [k |-> "norow", id |-> 0]}
    \cup {[k |-> "row", id |-> i] : i \in Ids}

\* lines 341-346 and their three repetitions: the identifier of the row read,
\* None when there is no row or the step raised
LookupValue(o) == IF o.k = "row" THEN Some(o.id) ELSE None

(***************************************************************************)
(* _resolve_location                                                       *)
(***************************************************************************)
\* line 319 and line 321: the geocoder is called when the text holds no zip,
\* a city or a state was parsed and geocode_fallback is on
GeocodeWantedAlways(zip_code, parts, cfg) ==
    (IsSome(parts.city) \/ IsSome(parts.state)) /\ cfg.geocode_fallback
GeocodeWantedNoTokens(zip_code, parts, cfg) ==
    IsNone(zip_code) /\ cfg.geocode_fallback
GeocodeWanted(zip_code, parts, cfg) ==
    /\ IsNone(zip_code)
    /\ (IsSome(parts.city) \/ IsSome(parts.state))
    /\ cfg.geocode_fallback

\* where control goes when _resolve_location returns
ReturnPc(who) ==
    CASE who = "comps" -> "sc_build"
      [] who = "lot_rent" -> "lr_query"
      [] who = "insert" -> "fb_values"
      [] OTHER -> "idle"

\* line 333: both mapping tables must pass _safe_table
MappingTablesSafe(cfg) ==
    SafeTable(cfg.zip_county_table) /\ SafeTable(cfg.counties_table)

\* lines 347 and 358-363: after the zip_county lookup
AfterZipCountyNoFallback(county_id, cfg) ==
    IF IsNone(county_id) THEN "return" ELSE "rl_county_region"
AfterZipCountyNoReturn(county_id, cfg) ==
    IF IsNone(county_id) /\ SafeTable(cfg.properties_table)
    THEN "rl_prop_county" ELSE "rl_county_region"
AfterZipCounty(county_id, cfg) ==
    IF IsNone(county_id) /\ SafeTable(cfg.properties_table) THEN "rl_prop_county"
    ELSE IF IsNone(county_id) THEN "return"
    ELSE "rl_county_region"

\* lines 358-363: after the properties fallback for the county
AfterPropCounty(county_id) ==
    IF IsNone(county_id) THEN "return" ELSE "rl_county_region"

\* line 376: after the counties lookup
AfterCountyRegion(region_id, cfg) ==
    IF IsNone(region_id) /\ SafeTable(cfg.properties_table)
    THEN "rl_prop_region" ELSE "return"

NoResolve ==
    [returned |-> FALSE, regex |-> None, zip |-> None, county |-> None,
     region |-> None, geoCalls |-> 0, lookups |-> <<>>, raised |-> FALSE]

Goto(target) == IF target = "return" THEN ReturnPc(caller) ELSE target

\* the effects of a call of the geocoder
GeocodeReturned(g) ==
    /\ geo' = g
    /\ geoPrev' = GeoBrief(geo)
    /\ cache' = g.cache

\* the faults of a call that is not made
NoEnv ==
    [getFails |-> FALSE, http |-> [kind |-> "ok", results |-> <<>>, found |-> None],
     setFails |-> FALSE]

\* lines 327-334: return at once without a zip or when a mapping table name
\* is unsafe, else go on with the zip_county lookup
ResolveZip(zip_regex, zip_code, calls) ==
    /\ rl' = [NoResolve EXCEPT
                !.regex = zip_regex, !.zip = zip_code, !.geoCalls = calls,
                !.returned = (IsNone(zip_code) \/ ~MappingTablesSafe(config))]
    /\ pc' = IF IsNone(zip_code) \/ ~MappingTablesSafe(config)
             THEN ReturnPc(caller) ELSE "rl_zip_county"

\* lines 319-326: the geocoder call and its effects
ResolveGeocoded(info, g) ==
    /\ GeocodeReturned(g)
    /\ ResolveZip(info.regex, g.ret, 1)

\* lines 312-326: the zip from the text, else from the geocoder
ResolveFrom(info, env) ==
    IF GeocodeWanted(info.regex, info.parts, config)
    THEN ResolveGeocoded(info,
            GeocodeCityStateToZip(info.args[1], info.args[2], config, cache, env))
    ELSE /\ env = NoEnv
         /\ ResolveZip(info.regex, info.regex, 0)
         /\ UNCHANGED <<geo, geoPrev, cache, ev, pf, cm, mc>>

\* lines 312-334
ResolveEnter ==
    /\ pc = "rl_enter"
    /\ \E env \in GeoEnvs : ResolveFrom(LocTable[listing.location], env)
    /\ UNCHANGED <<config, caller, listing, sc, fc, fb, db, ev, pf, cm, mc>>

\* lines 335-346 and 358-363: county_id from the zip_county table
LookupZipCounty ==
    /\ pc = "rl_zip_county"
    /\ \E o \in DbOutcomes :
         LET county_id == LookupValue(o)
             target == AfterZipCounty(county_id, config)
         IN  /\ rl' = [rl EXCEPT !.county = county_id,
                                 !.lookups = Append(@, [step |-> "zip_county", k |-> o.k]),
                                 !.returned = (target = "return")]
             /\ pc' = Goto(target)
    /\ UNCHANGED <<config, cache, caller, listing, geo, geoPrev, sc, fc, fb, db, ev, pf, cm, mc>>

\* lines 347-363: county_id from any property row with that zip
LookupPropCounty ==
    /\ pc = "rl_prop_county"
    /\ \E o \in DbOutcomes :
         LET county_id == LookupValue(o)
             target == AfterPropCounty(county_id)
         IN  /\ rl' = [rl EXCEPT !.county = county_id,
                                 !.lookups = Append(@, [step |-> "prop_county", k |-> o.k]),
                                 !.returned = (target = "return")]
             /\ pc' = Goto(target)
    /\ UNCHANGED <<config, cache, caller, listing, geo, geoPrev, sc, fc, fb, db, ev, pf, cm, mc>>

\* lines 364-376 and 387-391: region_id from the counties table
LookupCountyRegion ==
    /\ pc = "rl_county_region"
    /\ \E o \in DbOutcomes :
         LET region_id == LookupValue(o)
             target == AfterCountyRegion(region_id, config)
         IN  /\ rl' = [rl EXCEPT !.region = region_id,
                                 !.lookups = Append(@, [step |-> "county_region", k |-> o.k]),
                                 !.returned = (target = "return")]
             /\ pc' = Goto(target)
    /\ UNCHANGED <<config, cache, caller, listing, geo, geoPrev, sc, fc, fb, db, ev, pf, cm, mc>>

\* lines 376-391: region_id from any property row with that county
LookupPropRegion ==
    /\ pc = "rl_prop_region"
    /\ \E o \in DbOutcomes :
         /\ rl' = [rl EXCEPT !.region = LookupValue(o),
                             !.lookups = Append(@, [step |-> "prop_region", k |-> o.k]),
                             !.returned = TRUE]
         /\ pc' = ReturnPc(caller)
    /\ UNCHANGED <<config, cache, caller, listing, geo, geoPrev, sc, fc, fb, db, ev, pf, cm, mc>>

\* a caller (_get_average_lot_rent, insert_fb_listing, or _fetch_sales_comps
\* through FetchSalesCompsCall) calls _resolve_location(cursor, listing)
ResolveLocationCall ==
    /\ pc = "idle"
    /\ \E loc \in Locations :
         listing' = [location |-> loc, beds |-> None, baths |-> None,
                     year_built |-> None]
    /\ caller' = "resolve"
    /\ rl' = NoResolve
    /\ geo' = NoGeo
    /\ geoPrev' = GeoBrief(NoGeo)
    /\ pc' = "rl_enter"
    /\ UNCHANGED <<config, cache, sc, fc, fb, db, ev, pf, cm, mc>>

\* a direct call of _geocode_city_state_to_zip(city, state)
GeocodeCall ==
    /\ pc = "idle"
    /\ \E a \in GeoArgs, env \in GeoEnvs :
         GeocodeReturned(GeocodeCityStateToZip(a[1], a[2], config, cache, env))
    /\ UNCHANGED <<config, pc, caller, listing, rl, sc, fc, fb, db, ev, pf, cm, mc>>

(***************************************************************************)
(* _fetch_sales_comps                                                      *)
(***************************************************************************)
\* what one comparable query meets: it raises, or returns 0..MaxRows rows
QueryOutcomes ==
    {[k |-> "error", n |-> 0]} \cup {[k |-> "ok", n |-> i] : i \in 0..MaxRows}

\* lines 411-423: the attribute conditions of the strict pass
Conditions(l, cfg) ==
    (IF IsSome(l.beds) THEN <<"p.beds = %s">> ELSE <<>>)
    \o (IF IsSome(l.baths) THEN <<"p.baths = %s">> ELSE <<>>)
    \o (IF IsSome(l.year_built) /\ cfg.year_tolerance >= 0
        THEN <<"p.year_built BETWEEN %s AND %s">> ELSE <<>>)

\* lines 426-432: the candidate scopes
TriesCountyFirst(zip_code, county_id, region_id) ==
    (IF IsSome(county_id) THEN <<"county">> ELSE <<>>)
    \o (IF IsSome(zip_code) /\ Val(zip_code) # <<>> THEN <<"zip">> ELSE <<>>)
    \o (IF IsSome(region_id) THEN <<"region">> ELSE <<>>)
Tries(zip_code, county_id, region_id) ==
    (IF IsSome(zip_code) /\ Val(zip_code) # <<>> THEN <<"zip">> ELSE <<>>)
    \o (IF IsSome(county_id) THEN <<"county">> ELSE <<>>)
    \o (IF IsSome(region_id) THEN <<"region">> ELSE <<>>)

\* lines 438, 466 and 471: the tier queried after tier idx of a pass; the
\* relaxed pass runs only when where_extra is not empty
AfterTierOnePass(pass, idx, tries, where_extra) ==
    IF idx < Len(tries) THEN [done |-> FALSE, pass |-> pass, idx |-> idx + 1]
    ELSE [done |-> TRUE, pass |-> pass, idx |-> idx]
AfterTierRelaxFirst(pass, idx, tries, where_extra) ==
    IF pass = 1 /\ idx >= 1 /\ where_extra # <<>>
    THEN [done |-> FALSE, pass |-> 2, idx |-> idx]
    ELSE IF idx < Len(tries) THEN [done |-> FALSE, pass |-> 1, idx |-> idx + 1]
    ELSE [done |-> TRUE, pass |-> pass, idx |-> idx]
AfterTierAlwaysRelaxes(pass, idx, tries, where_extra) ==
    IF idx < Len(tries) THEN [done |-> FALSE, pass |-> pass, idx |-> idx + 1]
    ELSE IF pass = 1 /\ Len(tries) > 0
    THEN [done |-> FALSE, pass |-> 2, idx |-> 1]
    ELSE [done |-> TRUE, pass |-> pass, idx |-> idx]
AfterTier(pass, idx, tries, where_extra) ==
    IF idx < Len(tries) THEN [done |-> FALSE, pass |-> pass, idx |-> idx + 1]
    ELSE IF pass = 1 /\ where_extra # <<>> /\ Len(tries) > 0
    THEN [done |-> FALSE, pass |-> 2, idx |-> 1]
    ELSE [done |-> TRUE, pass |-> pass, idx |-> idx]

\* lines 503-507: the result when no query returned a row
NoCompsResultLastScope(s) ==
    [kind |-> "nocomps",
     scope |-> IF s.tries = <<>> THEN None ELSE Some(s.tries[Len(s.tries)]),
     nrows |-> 0]
NoCompsResult(s) == [kind |-> "nocomps", scope |-> None, nrows |-> 0]

\* go on with the next tier, or return the result of lines 503-507
Advance(s) ==
    LET nx == AfterTier(s.pass, s.idx, s.tries, s.where_extra)
    IN  IF nx.done
        THEN [s EXCEPT !.returned = TRUE, !.result = NoCompsResult(s)]
        ELSE [s EXCEPT !.pass = nx.pass, !.idx = nx.idx]

\* lines 447-453 and 480-486: a query that raises is logged and the loop
\* continues
OnQueryFailureAbort(s) == [s EXCEPT !.returned = TRUE, !.result = NoCompsResult(s)]
OnQueryFailure(s) == Advance(s)

\* lines 461 and 494: no rows, the loop goes on
OnNoRows(s) == Advance(s)

\* lines 461-463 and 494-496: the summary names the scope, and says "area" in
\* the relaxed pass
OnRows(s, scope, n) ==
    [s EXCEPT !.returned = TRUE,
              !.result = [kind |-> IF s.pass = 1 THEN "comps" ELSE "area",
                          scope |-> Some(scope), nrows |-> n]]

NoComps ==
    [returned |-> FALSE, isNone |-> FALSE, tries |-> <<>>, where_extra |-> <<>>,
     pass |-> 1, idx |-> 0, queries |-> <<>>,
     result |-> [kind |-> "pending", scope |-> None, nrows |-> 0],
     raised |-> FALSE]

\* attributes _parse_beds_baths_year extracted from the listing text
Listings ==
    {[location |-> loc, beds |-> a[1], baths |-> a[2], year_built |-> a[3]] :
        loc \in {LocCityStateZip, LocEmpty},
        a \in {<<None, None, None>>, <<Some(3), None, None>>,
               <<None, None, Some(1990)>>, <<Some(3), Some(2), Some(1990)>>}}

\* lines 399-401: None when the feature is off or a table name is unsafe,
\* else resolve the location
FetchSalesCompsCall ==
    /\ pc = "idle"
    /\ \E l \in Listings : listing' = l
    /\ IF \/ ~config.use_sales_comps
          \/ ~SafeTable(config.sales_table)
          \/ ~SafeTable(config.properties_table)
       THEN /\ sc' = [NoComps EXCEPT !.returned = TRUE, !.isNone = TRUE,
                                     !.result.kind = "none"]
            /\ pc' = "idle"
            /\ UNCHANGED <<caller, rl, ev, pf, cm, mc>>
       ELSE /\ sc' = NoComps
            /\ caller' = "comps"
            /\ rl' = NoResolve
            /\ pc' = "rl_enter"
    /\ geo' = NoGeo
    /\ geoPrev' = GeoBrief(NoGeo)
    /\ UNCHANGED <<config, cache, fc, fb, db, ev, pf, cm, mc>>

\* where control goes when _fetch_sales_comps returns: line 542 of
\* fetch_comparison when that is the caller
CompsReturnPc == IF fc.active THEN "fc_sales_done" ELSE "idle"

\* lines 402-437: the conditions and the candidate scopes; without a scope
\* both loops are empty and lines 503-507 return
CompsBuild ==
    /\ pc = "sc_build"
    /\ LET s == [sc EXCEPT !.tries = Tries(rl.zip, rl.county, rl.region),
                           !.where_extra = Conditions(listing, config)]
       IN  /\ sc' = Advance(s)
           /\ pc' = IF Advance(s).returned THEN CompsReturnPc ELSE "sc_query"
    /\ UNCHANGED <<config, cache, caller, listing, geo, geoPrev, rl, fc, fb, db, ev, pf, cm, mc>>

\* lines 438-463 and 471-496: one iteration of a loop, the query of one tier
CompsQuery ==
    /\ pc = "sc_query"
    /\ \E o \in QueryOutcomes :
         LET scope == sc.tries[sc.idx]
             q == [pass |-> sc.pass, scope |-> scope,
                   conditions |-> IF sc.pass = 1 THEN sc.where_extra ELSE <<>>,
                   k |-> o.k, n |-> o.n]
             s == [sc EXCEPT !.queries = Append(@, q)]
             t == IF o.k = "error" THEN OnQueryFailure(s)
                  ELSE IF o.n = 0 THEN OnNoRows(s)
                  ELSE OnRows(s, scope, o.n)
         IN  /\ sc' = t
             /\ pc' = IF t.returned THEN CompsReturnPc ELSE "sc_query"
    /\ UNCHANGED <<config, cache, caller, listing, geo, geoPrev, rl, fc, fb, db, ev, pf, cm, mc>>

(***************************************************************************)
(* The statements the engine executes.  A statement is its text, the       *)
(* configuration-supplied names put into the text, and the names of the    *)
(* values bound to its %s parameters.                                      *)
(***************************************************************************)
Statement(feature, text, names, params) ==
    [feature |-> feature, text |-> text, names |-> names, params |-> params]

\* the identifier quote of MySQL, which a TLA+ string cannot hold, is the
\* element "bq" of a text
Backticked(name) == <<"bq">> \o name \o <<"bq">>

\* lines 338, 350, 367 and 379: the four lookups of _resolve_location
SqlSelect == <<"S","E","L","E","C","T"," ">>
SqlFrom == <<" ","F","R","O","M"," ">>
SqlZipCountyTail == <<" ","W","H","E","R","E"," ","z","i","p"," ","="," ","%","s"," ","L","I",
          "M","I","T"," ","1">>
SqlPropCountyTail == <<" ","W","H","E","R","E"," ","z","i","p"," ","="," ","%","s"," ","A","N",
          "D"," ","c","o","u","n","t","y","_","i","d"," ","I","S"," ","N","O",
          "T"," ","N","U","L","L"," ","L","I","M","I","T"," ","1">>
SqlCountyRegionTail == <<" ","W","H","E","R","E"," ","i","d"," ","="," ","%","s"," ","L","I","M",
          "I","T"," ","1">>
SqlPropRegionTail == <<" ","W","H","E","R","E"," ","c","o","u","n","t","y","_","i","d"," ","=",
          " ","%","s"," ","A","N","D"," ","r","e","g","i","o","n","_","i","d",
          " ","I","S"," ","N","O","T"," ","N","U","L","L"," ","L","I","M","I",
          "T"," ","1">>

LookupText(column, table, tail) ==
    SqlSelect \o column \o SqlFrom \o Backticked(table) \o tail

LookupStatement(step, cfg) ==
    CASE step = "zip_county" ->
            Statement("resolve",
                LookupText(ColCountyId, cfg.zip_county_table, SqlZipCountyTail),
                <<cfg.zip_county_table>>, <<"zip_code">>)
      [] step = "prop_county" ->
            Statement("resolve",
                LookupText(ColCountyId, cfg.properties_table, SqlPropCountyTail),
                <<cfg.properties_table>>, <<"zip_code">>)
      [] step = "county_region" ->
            Statement("resolve",
                LookupText(ColRegionId, cfg.counties_table, SqlCountyRegionTail),
                <<cfg.counties_table>>, <<"county_id">>)
      [] OTHER ->
            Statement("resolve",
                LookupText(ColRegionId, cfg.properties_table, SqlPropRegionTail),
                <<cfg.properties_table>>, <<"county_id">>)

\* the statements of the lookups a _resolve_location call made
LookupStatements(lookups, cfg) ==
    [i \in DOMAIN lookups |-> LookupStatement(lookups[i].step, cfg)]

\* lines 440-444 and 473-477: the query of one tier
SqlSalesHead ==
    <<"S","E","L","E","C","T"," ","s",".","s","a","l","e","_","p","r","i","c",
          "e",","," ","s",".","s","a","l","e","_","d","a","t","e",","," ","p",
          ".","b","e","d","s",","," ","p",".","b","a","t","h","s",","," ","p",
          ".","s","q","u","a","r","e","_","f","e","e","t",","," ","p",".","y",
          "e","a","r","_","b","u","i","l","t",","," ","p",".","c","i","t","y",
          ","," ","p",".","s","t","a","t","e",","," ","p",".","z","i","p"," ",
          "F","R","O","M"," ">>
SqlSalesJoin == <<" ","s"," ","J","O","I","N"," ">>
SqlSalesOn == <<" ","p"," ","O","N"," ","s",".","p","r","o","p","e","r","t","y","_","i",
          "d"," ","="," ","p",".","i","d"," ","W","H","E","R","E"," ">>
SqlSalesTail == <<" ","O","R","D","E","R"," ","B","Y"," ","s",".","s","a","l","e","_","d",
          "a","t","e"," ","D","E","S","C"," ","L","I","M","I","T"," ","%","s">>
SqlAnd == <<" ","A","N","D"," ">>
SqlZipIs == <<"p",".","z","i","p"," ","="," ","%","s">>
SqlCountyIs == <<"p",".","c","o","u","n","t","y","_","i","d"," ","="," ","%","s">>
SqlRegionIs == <<"p",".","r","e","g","i","o","n","_","i","d"," ","="," ","%","s">>
SqlBedsIs == <<"p",".","b","e","d","s"," ","="," ","%","s">>
SqlBathsIs == <<"p",".","b","a","t","h","s"," ","="," ","%","s">>
SqlYearBetween == <<"p",".","y","e","a","r","_","b","u","i","l","t"," ","B","E","T","W","E",
          "E","N"," ","%","s"," ","A","N","D"," ","%","s">>

\* lines 427-431: the condition of a scope
ScopeWhere(scope) ==
    CASE scope = "zip" -> SqlZipIs
      [] scope = "county" -> SqlCountyIs
      [] OTHER -> SqlRegionIs

\* line 424: " AND " + " AND ".join(conditions), for at most three conditions
ConditionText(c) ==
    CASE c = "p.beds = %s" -> SqlBedsIs
      [] c = "p.baths = %s" -> SqlBathsIs
      [] OTHER -> SqlYearBetween
WhereExtra(conditions) ==
    (IF Len(conditions) >= 1 THEN SqlAnd \o ConditionText(conditions[1]) ELSE <<>>)
    \o (IF Len(conditions) >= 2 THEN SqlAnd \o ConditionText(conditions[2]) ELSE <<>>)
    \o (IF Len(conditions) >= 3 THEN SqlAnd \o ConditionText(conditions[3]) ELSE <<>>)

\* the values bound for the conditions (lines 414-422)
ConditionParams(c) ==
    CASE c = "p.beds = %s" -> <<"beds">>
      [] c = "p.baths = %s" -> <<"baths">>
      [] OTHER -> <<"year_lo", "year_hi">>
ExtraParams(conditions) ==
    (IF Len(conditions) >= 1 THEN ConditionParams(conditions[1]) ELSE <<>>)
    \o (IF Len(conditions) >= 2 THEN ConditionParams(conditions[2]) ELSE <<>>)
    \o (IF Len(conditions) >= 3 THEN ConditionParams(conditions[3]) ELSE <<>>)

ScopeParam(scope) ==
    CASE scope = "zip" -> "zip_code"
      [] scope = "county" -> "county_id"
      [] OTHER -> "region_id"

SalesStatement(q, cfg) ==
    Statement("sales",
        SqlSalesHead \o Backticked(cfg.sales_table) \o SqlSalesJoin
            \o Backticked(cfg.properties_table) \o SqlSalesOn
            \o ScopeWhere(q.scope) \o WhereExtra(q.conditions) \o SqlSalesTail,
        <<cfg.sales_table, cfg.properties_table>>,
        <<ScopeParam(q.scope)>> \o ExtraParams(q.conditions) \o <<"limit">>)

\* the statements of the queries a _fetch_sales_comps call made
SalesStatements(queries, cfg) ==
    [i \in DOMAIN queries |-> SalesStatement(queries[i], cfg)]

(***************************************************************************)
(* More string methods, used by fetch_comparison and its helpers.          *)
(***************************************************************************)
\* str.upper() on one character, and str.upper()
UpperChar(c) ==
    IF c \in Lower
    THEN UpperSeq[CHOOSE i \in DOMAIN LowerSeq : LowerSeq[i] = c]
    ELSE c
ToUpper(s) == [i \in DOMAIN s |-> UpperChar(s[i])]

\* sub in text
Contains(sub, text) ==
    \E i \in 1..(Len(text) - Len(sub) + 1) : SubSeq(text, i, i + Len(sub) - 1) = sub

\* s[:n]
Truncate(s, n) == IF Len(s) <= n THEN s ELSE SubSeq(s, 1, n)

\* s.replace("%", "%%")
EscapedAt(s, i) == i + Cardinality({j \in 1..(i - 1) : s[j] = "%"})
EscapePercent(s) ==
    [k \in 1..(Len(s) + Cardinality({j \in DOMAIN s : s[j] = "%"})) |->
        s[CHOOSE i \in DOMAIN s :
            \/ EscapedAt(s, i) = k
            \/ s[i] = "%" /\ EscapedAt(s, i) + 1 = k]]

\* s.rstrip(chars)
RStripSet(s, chars) ==
    IF \A i \in DOMAIN s : s[i] \in chars THEN <<>>
    ELSE SubSeq(s, 1, CHOOSE i \in DOMAIN s :
                        /\ s[i] \notin chars
                        /\ \A j \in (i + 1)..Len(s) : s[j] \in chars)

\* str(n) for 0 <= n < 1000
DigitSeq == <<"0", "1", "2", "3", "4", "5", "6", "7", "8", "9">>
Decimal(n) ==
    IF n < 10 THEN <<DigitSeq[n + 1]>>
    ELSE IF n < 100 THEN <<DigitSeq[(n \div 10) + 1], DigitSeq[(n % 10) + 1]>>
    ELSE <<DigitSeq[(n \div 100) + 1], DigitSeq[((n \div 10) % 10) + 1],
           DigitSeq[(n % 10) + 1]>>

\* a value the code tests for truth: an Optional text that is set and not empty
Truthy(o) == IsSome(o) /\ Val(o) # <<>>

(***************************************************************************)
(* _parse_price                                                            *)
(***************************************************************************)
TxtUnspecified == <<"*","*","u","n","s","p","e","c","i","f","i","e","d","*","*">>
PriceChars == Digit \cup {","}

\* the end of the run of [\d,] characters that starts at i
RunEnd(s, i) ==
    CHOOSE j \in i..Len(s) :
        /\ \A k \in i..j : s[k] \in PriceChars
        /\ (j = Len(s) \/ s[j + 1] \notin PriceChars)

\* the end of the match of [\d,]+(?:\.\d+)? whose run ends at j
MatchEnd(s, j) ==
    IF j + 2 <= Len(s) /\ s[j + 1] = "." /\ s[j + 2] \in Digit
    THEN CHOOSE k \in (j + 2)..Len(s) :
            /\ \A m \in (j + 2)..k : s[m] \in Digit
            /\ (k = Len(s) \/ s[k + 1] \notin Digit)
    ELSE j

\* n.replace(",", "")
DropCommas(n) == SelectSeq(n, LAMBDA c : c # ",")

\* lines 110-117: the first match that is not made of commas alone, cleaned;
\* the float is kept as its text
LastNumber(s, starts) ==
    IF starts = {} THEN None
    ELSE Some(DropCommas(SubSeq(s, CHOOSE i \in starts : \A j \in starts : i >= j,
                MatchEnd(s, RunEnd(s, CHOOSE i \in starts : \A j \in starts : i >= j)))))
FirstNumber(s, starts) ==
    IF starts = {} THEN None
    ELSE Some(DropCommas(SubSeq(s, CHOOSE i \in starts : \A j \in starts : i <= j,
                MatchEnd(s, RunEnd(s, CHOOSE i \in starts : \A j \in starts : i <= j)))))

\* line 115: float(cleaned) accepts digits with at most one point among them
\* and at least one digit; anything else is a ValueError, caught at line 116
FloatAccepts(cleaned) ==
    /\ \E i \in DOMAIN cleaned : cleaned[i] \in Digit
    /\ \A i \in DOMAIN cleaned : cleaned[i] \in Digit \cup {"."}
    /\ Cardinality({i \in DOMAIN cleaned : cleaned[i] = "."}) <= 1

\* lines 105-118
_parse_price(price_str) ==
    IF price_str = <<>> \/ price_str = TxtUnspecified THEN None
    ELSE FirstNumber(price_str,
            {i \in DOMAIN price_str :
                /\ price_str[i] \in PriceChars
                /\ (i = 1 \/ price_str[i - 1] \notin PriceChars)
                /\ MatchEnd(price_str, RunEnd(price_str, i)) >= i
                /\ DropCommas(SubSeq(price_str, i,
                        MatchEnd(price_str, RunEnd(price_str, i)))) # <<>>
                /\ FloatAccepts(DropCommas(SubSeq(price_str, i,
                        MatchEnd(price_str, RunEnd(price_str, i)))))})

\* price texts: every text of at most MaxPriceLen characters of the alphabet,
\* and the examples of the documentation
MaxPriceLen == 3
PriceAlphabet == {"$", "3", "0", ",", ".", " "}
TxtPriceRange ==
    <<"$","3","0",",","0","0","0"," ","-"," ","$","3","2",",","0","0","0">>
PriceTexts ==
    (UNION {[1..n -> PriceAlphabet] : n \in 0..MaxPriceLen})
        \cup {TxtPriceRange, TxtUnspecified}

\* _parse_price(price_str) applied to one text
ParsePriceCall ==
    /\ pf.fn = "_parse_price"
    /\ ~pf.done
    /\ pf' = [pf EXCEPT !.done = TRUE, !.out = _parse_price(pf.arg)]
    /\ UNCHANGED <<config, cache, pc, caller, listing, geo, geoPrev, rl, sc, fc,
                   fb, db, ev, cm, mc>>

(***************************************************************************)
(* OllamaMySQLConfig.get_mysql_config (ai_ollama_mysql.py)                 *)
(***************************************************************************)
\* mysql_compare.py lines 26-77: the fields of MySQLConfig and their defaults
\* (1.0 seconds is written 1)
MySQLConfigDefaults ==
    ("host" :> "localhost") @@
    ("port" :> 3306) @@
    ("user" :> "") @@
    ("password" :> "") @@
    ("database" :> "") @@
    ("enabled" :> TRUE) @@
    ("comparison_query" :> None) @@
    ("comparison_table" :> None) @@
    ("title_column" :> "title") @@
    ("price_column" :> Some("price")) @@
    ("max_rows" :> 10) @@
    ("output_format" :> "full") @@
    ("use_sales_comps" :> FALSE) @@
    ("sales_max_rows" :> 10) @@
    ("sales_table" :> "sales") @@
    ("properties_table" :> "properties") @@
    ("zip_county_table" :> "zip_county") @@
    ("counties_table" :> "counties") @@
    ("year_tolerance" :> 5) @@
    ("insert_into_fb" :> TRUE) @@
    ("fb_listings_table" :> "fb_listings") @@
    ("insert_all_evaluated" :> TRUE) @@
    ("fb_listing_history_table" :> None) @@
    ("connection_timeout" :> 10) @@
    ("geocode_fallback" :> TRUE) @@
    ("geocode_geoapify_api_key" :> None) @@
    ("geocode_rate_limit_seconds" :> 1) @@
    ("lot_rent_table" :> None) @@
    ("lot_rent_zip_column" :> "zip") @@
    ("lot_rent_county_column" :> "county_id") @@
    ("lot_rent_region_column" :> "region_id") @@
    ("lot_rent_value_column" :> "avg_rent")

\* ai_ollama_mysql.py lines 39-61: the keys the function reads from the
\* block, each with the value it takes when the key is absent
ReadDefaults ==
    ("host" :> "localhost") @@
    ("port" :> 3306) @@
    ("user" :> "") @@
    ("password" :> "") @@
    ("database" :> "") @@
    ("enabled" :> TRUE) @@
    ("comparison_query" :> None) @@
    ("comparison_table" :> None) @@
    ("title_column" :> "title") @@
    ("price_column" :> Some("price")) @@
    ("max_rows" :> 10) @@
    ("output_format" :> "full") @@
    ("use_sales_comps" :> FALSE) @@
    ("sales_max_rows" :> 10) @@
    ("sales_table" :> "sales") @@
    ("properties_table" :> "properties") @@
    ("zip_county_table" :> "zip_county") @@
    ("counties_table" :> "counties") @@
    ("year_tolerance" :> 5) @@
    ("insert_into_fb" :> FALSE) @@
    ("fb_listings_table" :> "fb_listings") @@
    ("insert_all_evaluated" :> FALSE) @@
    ("connection_timeout" :> 10)

\* a value other than the default, for each option
SampleValues ==
    ("host" :> "db.example") @@
    ("port" :> 3307) @@
    ("user" :> "monitor") @@
    ("password" :> "secret") @@
    ("database" :> "market") @@
    ("enabled" :> FALSE) @@
    ("comparison_query" :> Some("SELECT 1")) @@
    ("comparison_table" :> Some("fb_listings")) @@
    ("title_column" :> "name") @@
    ("price_column" :> Some("asking_price")) @@
    ("max_rows" :> 5) @@
    ("output_format" :> "short") @@
    ("use_sales_comps" :> TRUE) @@
    ("sales_max_rows" :> 5) @@
    ("sales_table" :> "sold") @@
    ("properties_table" :> "homes") @@
    ("zip_county_table" :> "zips") @@
    ("counties_table" :> "county") @@
    ("year_tolerance" :> 2) @@
    ("insert_into_fb" :> FALSE) @@
    ("fb_listings_table" :> "listings") @@
    ("insert_all_evaluated" :> FALSE) @@
    ("fb_listing_history_table" :> Some("fb_listing_history")) @@
    ("connection_timeout" :> 3) @@
    ("geocode_fallback" :> FALSE) @@
    ("geocode_geoapify_api_key" :> Some("key")) @@
    ("geocode_rate_limit_seconds" :> 2) @@
    ("lot_rent_table" :> Some("lot_rents")) @@
    ("lot_rent_zip_column" :> "zipcode") @@
    ("lot_rent_county_column" :> "county") @@
    ("lot_rent_region_column" :> "region") @@
    ("lot_rent_value_column" :> "rent")

OptionNames == DOMAIN MySQLConfigDefaults
ReadOptions == DOMAIN ReadDefaults
IntOptions ==
    {"port", "max_rows", "sales_max_rows", "year_tolerance", "connection_timeout"}

\* int(x) of a value that is an integer already
IntOf(x) == x

\* a mysql block: each option is absent or set
BlockOf(set) ==
    [n \in OptionNames |-> IF n \in set THEN Some(SampleValues[n]) ELSE None]

\* the blocks with at most MaxSet options set
MaxSet == 2
OptionSets ==
    LET upTo[k \in 0..MaxSet] ==
            IF k = 0 THEN {{}}
            ELSE upTo[k - 1] \cup {t \cup {n} : t \in upTo[k - 1], n \in OptionNames}
    IN  upTo[MaxSet]
Blocks == {BlockOf(set) : set \in OptionSets}

\* a reading that passes every option of the block to MySQLConfig
FieldFromBlockEveryOption(m, n) ==
    IF IsSome(m[n]) THEN Val(m[n])
    ELSE IF n \in DOMAIN ReadDefaults THEN ReadDefaults[n]
    ELSE MySQLConfigDefaults[n]

\* lines 38-62: MySQLConfig(...) of the keys read; the fields that are not
\* passed keep the defaults of the dataclass
FieldFromBlock(m, n) ==
    IF n \notin ReadOptions THEN MySQLConfigDefaults[n]
    ELSE IF IsNone(m[n]) THEN ReadDefaults[n]
    ELSE IF n \in IntOptions THEN IntOf(Val(m[n]))
    ELSE Val(m[n])

\* lines 34-62: None for an empty block
get_mysql_config(m) ==
    IF \A n \in OptionNames : IsNone(m[n]) THEN None
    ELSE Some([n \in OptionNames |-> FieldFromBlock(m, n)])

\* get_mysql_config() applied to one block
GetMysqlConfigCall ==
    /\ pf.fn = "get_mysql_config"
    /\ ~pf.done
    /\ pf' = [pf EXCEPT !.done = TRUE, !.out = get_mysql_config(pf.arg)]
    /\ UNCHANGED <<config, cache, pc, caller, listing, geo, geoPrev, rl, sc, fc,
                   fb, db, ev, cm, mc>>

(***************************************************************************)
(* fetch_comparison                                                        *)
(***************************************************************************)
\* listing titles and price texts
TxtTitleHome == <<"H","o","m","e">>
TxtTitleQuote == <<"5","0","%","'"," ","O","R"," ","'","1","'","=","'","1">>
TxtPrice180 == <<"$","1","8","0">>
TxtItemName == <<"h","o","m","e">>

\* comparison_query values: the text before a placeholder, the placeholder
\* and the text after it
TplByTitle ==
    [pre |-> <<"S","E","L","E","C","T"," ","*"," ","F","R","O","M"," ","t"," ","W",
          "H","E","R","E"," ","t","i","t","l","e"," ","="," ","'">>,
     hole |-> "title",
     post |-> <<"'",";">>]
TplPlain ==
    [pre |-> <<"S","E","L","E","C","T"," ","*"," ","F","R","O","M"," ","t"," ","L",
          "I","M","I","T"," ","5">>, hole |-> "none", post |-> <<>>]

SqlLimit == <<" ","L","I","M","I","T"," ">>
SqlWord == <<"L","I","M","I","T">>

\* lines 628-631: what replaces the placeholder of the query
HoleValue(hole, title, price, location, item_name) ==
    CASE hole = "title" -> Truncate(EscapePercent(title), 200)
      [] hole = "price" -> price
      [] hole = "location" -> Truncate(EscapePercent(location), 100)
      [] hole = "item_name" -> item_name
      [] OTHER -> <<>>

\* lines 633-634: LIMIT max_rows is appended to a query without LIMIT
WithLimit(q, cfg) ==
    IF Contains(SqlWord, ToUpper(q)) THEN q
    ELSE RStripSet(q, {" ", ";"}) \o SqlLimit \o Decimal(cfg.max_rows)

\* lines 626-635: the text _run_custom_query executes, with no parameters
CustomText(tpl, f, loc, cfg) ==
    WithLimit(tpl.pre \o HoleValue(tpl.hole, f.title, f.price, loc, f.item_name)
              \o tpl.post, cfg)
CustomStatement(tpl, f, loc, cfg) ==
    Statement("custom", CustomText(tpl, f, loc, cfg), <<>>, <<>>)

\* lines 654-659: a column name that fails the pattern is replaced
TitleColumn(cfg) ==
    IF SafeTable(cfg.title_column) THEN cfg.title_column ELSE ColTitle
PriceColumn(cfg) ==
    IF IsSome(cfg.price_column) /\ ~SafeTable(Val(cfg.price_column))
    THEN Some(ColPrice) ELSE cfg.price_column

SqlSelectAll == <<"S","E","L","E","C","T"," ","*"," ","F","R","O","M"," ">>
SqlWhere == <<" ","W","H","E","R","E"," ">>
SqlLike == <<" ","L","I","K","E"," ","%","s">>
SqlLimitParam == <<" ","L","I","M","I","T"," ","%","s">>
SqlLessEq == <<" ","<","="," ","%","s"," ","O","R","D","E","R"," ","B","Y"," ">>
SqlDescLimit == <<" ","D","E","S","C"," ","L","I","M","I","T"," ","%","s">>

\* lines 660-671: the statement of _run_builtin_comparison
BuiltinBounded(table, title_col, price_col) ==
    Statement("builtin",
        SqlSelectAll \o Backticked(table) \o SqlWhere \o Backticked(title_col)
            \o SqlLike \o SqlAnd \o Backticked(price_col) \o SqlLessEq
            \o Backticked(price_col) \o SqlDescLimit,
        <<table, title_col, price_col>>,
        <<"title_like", "price_bound", "max_rows">>)
BuiltinPlain(table, title_col) ==
    Statement("builtin",
        SqlSelectAll \o Backticked(table) \o SqlWhere \o Backticked(title_col)
            \o SqlLike \o SqlLimitParam,
        <<table, title_col>>,
        <<"title_like", "max_rows">>)
BuiltinStatement(cfg, price_val) ==
    IF Truthy(PriceColumn(cfg)) /\ IsSome(price_val)
    THEN BuiltinBounded(Val(cfg.comparison_table), TitleColumn(cfg),
                        Val(PriceColumn(cfg)))
    ELSE BuiltinPlain(Val(cfg.comparison_table), TitleColumn(cfg))

\* lines 651-653: the table must be set and pass the pattern
BuiltinTableOk(cfg) ==
    Truthy(cfg.comparison_table) /\ SafeTable(Val(cfg.comparison_table))

\* lines 720-723: the statement of one scope of _get_average_lot_rent
SqlEqLimit == <<" ","="," ","%","s"," ","L","I","M","I","T"," ","1">>
LotStatement(val_col, table, col, param) ==
    Statement("lot_rent",
        SqlSelect \o Backticked(val_col) \o SqlFrom \o Backticked(table)
            \o SqlWhere \o Backticked(col) \o SqlEqLimit,
        <<val_col, table, col>>, <<param>>)

\* lines 709-711: the value column
LotValueColumn(cfg) ==
    IF cfg.lot_rent_value_column # <<>> /\ SafeTable(cfg.lot_rent_value_column)
    THEN cfg.lot_rent_value_column ELSE ColAvgRent

\* lines 712-716: the scopes, their columns and their keys
LotScopes(cfg, r) ==
    <<[scope |-> "zip", col |-> cfg.lot_rent_zip_column, key |-> r.zip,
       param |-> "zip_code"],
      [scope |-> "county", col |-> cfg.lot_rent_county_column, key |-> r.county,
       param |-> "county_id"],
      [scope |-> "region", col |-> cfg.lot_rent_region_column, key |-> r.region,
       param |-> "region_id"]>>

\* line 717: a scope is queried when its column is safe and its key is set
LotQueried(t) == t.col # <<>> /\ SafeTable(t.col) /\ IsSome(t.key)

\* what one lot-rent lookup meets: the query raises, no row, a dict row (on
\* which row[0] of line 726 raises KeyError, caught at line 734), or a tuple
\* row whose value float() accepts or not
LotOutcomes == {"error", "norow", "dict_row", "tuple_value", "tuple_unusable"}

\* lines 717-735: the scopes queried, given what each lookup meets: every
\* queried scope up to the first that yields a value
LotHits(scopes, os) ==
    {i \in DOMAIN scopes : LotQueried(scopes[i]) /\ os[i] = "tuple_value"}
LotExecuted(scopes, os) ==
    SelectSeq([i \in DOMAIN scopes |-> [scopes[i] EXCEPT !.key = Some(i)]],
        LAMBDA t : /\ LotQueried(scopes[Val(t.key)])
                   /\ \A h \in LotHits(scopes, os) : Val(t.key) <= h)
LotLine(scopes, os) ==
    IF LotHits(scopes, os) = {} THEN None
    ELSE Some(scopes[CHOOSE h \in LotHits(scopes, os) :
                        \A k \in LotHits(scopes, os) : h <= k].scope)
LotStatements(cfg, executed) ==
    [i \in DOMAIN executed |->
        LotStatement(LotValueColumn(cfg), Val(cfg.lot_rent_table),
                     executed[i].col, executed[i].param)]

(***************************************************************************)
(* _lot_rent_in_listing                                                    *)
(***************************************************************************)
\* the literal lit stands in text at index i
LitAt(text, i, lit) ==
    /\ i >= 1
    /\ i + Len(lit) - 1 <= Len(text)
    /\ SubSeq(text, i, i + Len(lit) - 1) = lit

\* the first index from i on whose character is not in the class; what a
\* greedy "[class]*" leaves
SkipWhile(text, i, class) ==
    LET stop[j \in 1..(Len(text) + 1)] ==
            IF j > Len(text) THEN j
            ELSE IF text[j] \in class THEN stop[j + 1] ELSE j
    IN  IF i > Len(text) THEN i ELSE stop[i]
SpaceChars == {" ", "\t", "\n"}
SkipSpace(text, i) == SkipWhile(text, i, SpaceChars)

\* "\s+word" at index i
SpacedWordAt(text, i, word) ==
    /\ i <= Len(text)
    /\ text[i] \in SpaceChars
    /\ LitAt(text, SkipSpace(text, i), word)

\* "first\s+second" at index i
TwoWordsAt(text, i, first, second) ==
    LitAt(text, i, first) /\ SpacedWordAt(text, i + Len(first), second)

\* "word\s+:\s*\$" at index i
WordColonDollarAt(text, i, word) ==
    /\ TwoWordsAt(text, i, word, <<":">>)
    /\ LitAt(text, SkipSpace(text, SkipSpace(text, i + Len(word)) + 1), <<"$">>)

TxtLot == <<"l","o","t">>
TxtSpace == <<"s","p","a","c","e">>
TxtRent == <<"r","e","n","t">>
TxtMo == <<"m","o">>
TxtPer == <<"p","e","r">>
TxtMonth == <<"m","o","n","t","h">>

\* line 157: lot\s+rent|space\s+rent|lot\s+:\s*\$|space\s+:\s*\$
MentionsRent(text) ==
    \E i \in DOMAIN text :
        \/ TwoWordsAt(text, i, TxtLot, TxtRent)
        \/ TwoWordsAt(text, i, TxtSpace, TxtRent)
        \/ WordColonDollarAt(text, i, TxtLot)
        \/ WordColonDollarAt(text, i, TxtSpace)

\* line 160: (?:lot\s+rent|space\s+rent|rent)\s*[:\s]*\$?\s*[\d,]+ ; every
\* alternative ends with "rent"
AmountStart(text, j) ==
    IF LitAt(text, j, <<"$">>) THEN SkipSpace(text, j + 1) ELSE j
AmountAfterRent(text) ==
    \E i \in DOMAIN text :
        /\ LitAt(text, i, TxtRent)
        /\ AmountStart(text, SkipWhile(text, i + 4, SpaceChars \cup {":"})) <= Len(text)
        /\ text[AmountStart(text, SkipWhile(text, i + 4, SpaceChars \cup {":"}))]
              \in Digit \cup {","}

\* line 162: \$[\d,]+(?:\s*/\s*mo|\s*per\s*month)?(?:\s+lot|\s+space|\s+rent)
RentWordAt(text, j) ==
    \E w \in {TxtLot, TxtSpace, TxtRent} : SpacedWordAt(text, j, w)
PerMonthEnd(text, j) ==
    {j}
    \cup (IF LitAt(text, SkipSpace(text, j), <<"/">>)
             /\ LitAt(text, SkipSpace(text, SkipSpace(text, j) + 1), TxtMo)
          THEN {SkipSpace(text, SkipSpace(text, j) + 1) + 2} ELSE {})
    \cup (IF LitAt(text, SkipSpace(text, j), TxtPer)
             /\ LitAt(text, SkipSpace(text, SkipSpace(text, j) + 3), TxtMonth)
          THEN {SkipSpace(text, SkipSpace(text, j) + 3) + 5} ELSE {})
DollarBeforeRent(text) ==
    \E i \in DOMAIN text :
        /\ text[i] = "$"
        /\ SkipWhile(text, i + 1, Digit \cup {","}) > i + 1
        /\ \E j \in PerMonthEnd(text, SkipWhile(text, i + 1, Digit \cup {","})) :
             RentWordAt(text, j)

\* lines 156-164: the text mentions a lot or space rent and carries an amount
RentStatedIn(text) ==
    MentionsRent(text) /\ (AmountAfterRent(text) \/ DollarBeforeRent(text))
_lot_rent_in_listing(title, description) ==
    RentStatedIn(ToLower(title \o <<" ">> \o description))

\* lines 554-555: the lot-rent lookup is made
LotRentWantedAnyListing(cfg, f) ==
    Truthy(cfg.lot_rent_table) /\ SafeTable(Val(cfg.lot_rent_table))
LotRentWanted(cfg, f) ==
    /\ Truthy(cfg.lot_rent_table)
    /\ SafeTable(Val(cfg.lot_rent_table))
    /\ ~_lot_rent_in_listing(f.title, f.description)

\* float(cleaned) of a text of digits
DigitValue(c) == (CHOOSE i \in DOMAIN DigitSeq : DigitSeq[i] = c) - 1
NumberOf(t) ==
    LET acc[i \in 0..Len(t)] ==
            IF i = 0 THEN 0 ELSE acc[i - 1] * 10 + DigitValue(t[i])
    IN  acc[Len(t)]

\* no fetch_comparison call in progress
NoFetch ==
    [active |-> FALSE, returned |-> FALSE, raised |-> FALSE, isNone |-> FALSE,
     title |-> <<>>, price |-> <<>>, item_name |-> <<>>, description |-> <<>>,
     connected |-> FALSE, combined |-> <<>>,
     sales |-> [kind |-> "none", scope |-> None, nrows |-> 0],
     fbRows |-> 0, fbSet |-> FALSE, lot |-> None,
     statements |-> <<>>, salesPrices |-> <<>>, fbPrices |-> <<>>,
     concise_parts |-> <<>>, concise |-> <<>>, sales_scope |-> None,
     cursor |-> "none", customRows |-> 0, summary |-> <<>>,
     id |-> "", own |-> None]

\* what the caller passes: the listing and the item name
\* descriptions of listings: none, a rent with its amount, a rent without an
\* amount, an amount before the word, and an amount with no rent named
TxtDescRent == <<"L","o","t"," ","R","e","n","t",":"," ","$","4","0","0">>
TxtDescIncluded == <<"l","o","t"," ","r","e","n","t"," ","i","n","c","l","u","d","e","d">>
TxtDescPerMonth == <<"s","p","a","c","e"," ","r","e","n","t"," ","i","s"," ","$","3","5","0"," ","/"," ","m","o"," ","l","o","t">>
TxtDescPrice == <<"r","e","n","t"," ","$","4","0","0"," ","m","o","n","t","h","l","y">>
Descriptions == {<<>>, TxtDescRent, TxtDescIncluded, TxtDescPerMonth}
FetchInputs ==
    {[id |-> "fb1", location |-> loc, beds |-> b, title |-> t, price |-> p,
      description |-> r] :
        loc \in {LocCityStateZip, LocEmpty},
        b \in {None, Some(3)},
        t \in {TxtTitleHome, TxtTitleQuote},
        p \in {<<>>, TxtPrice180},
        r \in Descriptions}

\* lines 518-521: nothing to do
FetchDisabled(cfg) ==
    \/ ~cfg.enabled
    \/ ~cfg.use_sales_comps /\ ~IsSome(cfg.comparison_query)
         /\ ~Truthy(cfg.comparison_table)

\* lines 538-553: the branch taken
FetchEntryPc(cfg) ==
    IF IsSome(cfg.comparison_query) THEN "fc_custom"
    ELSE IF cfg.use_sales_comps THEN "fc_sales"
    ELSE IF Truthy(cfg.comparison_table) THEN "fc_builtin"
    ELSE "fc_lot"

\* lines 561-565 and 856-860: the finally clause calls cursor.close(); an
\* error of close() is ignored
LeaveCursor(f) == f
CloseCursor(f) == IF f.cursor = "open" THEN [f EXCEPT !.cursor = "closed"] ELSE f

\* where control goes when fetch_comparison and insert_fb_listing return:
\* into evaluate when it made the call
FetchReturnPc ==
    IF ~ev.active THEN "idle"
    ELSE IF ev.stage = "prompt" THEN "ev_model"
    ELSE "ev_finish"
InsertReturnPc == IF ev.active THEN "ev_fetch" ELSE "idle"

\* return None (lines 519, 521, 529, 560, 568)
FetchNone(f) ==
    [f EXCEPT !.active = FALSE, !.returned = TRUE, !.isNone = TRUE]

\* an exception leaves fetch_comparison
FetchRaised(f) ==
    [f EXCEPT !.active = FALSE, !.returned = TRUE, !.raised = TRUE]

\* lines 557-565: a failure inside the try block: the finally clause runs,
\* then None is returned
FetchFailed(f) == FetchNone(CloseCursor(f))

\* line 531: creating the cursor is outside every try block
OnCursorFailure(f) == FetchRaised(f)

\* lines 518-537
FetchStart(f, conn, cur) ==
    IF FetchDisabled(config) THEN FetchNone(f)
    ELSE IF conn = "fail" THEN FetchNone(f)
    ELSE IF cur = "raises" THEN OnCursorFailure([f EXCEPT !.connected = TRUE])
    ELSE [f EXCEPT !.active = TRUE, !.connected = TRUE, !.cursor = "open"]

FetchBegin(inp, f, back) ==
    /\ fc' = f
    /\ listing' = [location |-> inp.location, beds |-> inp.beds, baths |-> None,
                   year_built |-> None]
    /\ pc' = IF f.active THEN FetchEntryPc(config) ELSE back

\* lines 518-537 for the listing inp; the connection and the cursor are the
\* environment's; a call that returns at once returns to back
FetchEnter(inp, back) ==
    /\ \E conn \in {"ok", "fail"}, cur \in {"ok", "raises"} :
         /\ (FetchDisabled(config) \/ conn = "fail") => cur = "ok"
         /\ FetchDisabled(config) => conn = "ok"
         /\ FetchBegin(inp,
                FetchStart([NoFetch EXCEPT !.id = inp.id,
                                           !.title = inp.title, !.price = inp.price,
                                           !.item_name = TxtItemName,
                                           !.description = inp.description],
                           conn, cur), back)
    /\ caller' = "none"
    /\ rl' = NoResolve
    /\ sc' = NoComps
    /\ geo' = NoGeo
    /\ geoPrev' = GeoBrief(NoGeo)

\* fetch_comparison(listing, item_name): lines 518-537
FetchComparisonCall ==
    /\ pc = "idle"
    /\ \E inp \in FetchInputs :
         /\ ~LotRentWantedAnyListing(config, NoFetch) => inp.description = <<>>
         /\ ~IsSome(config.comparison_query) => inp.title = TxtTitleHome
         /\ FetchEnter(inp, "idle")
    /\ UNCHANGED <<config, cache, fb, db, ev, pf, cm, mc>>

\* lines 538-541 and 619-643: _run_custom_query; an error of the query is
\* caught at line 557
FetchCustomQuery ==
    /\ pc = "fc_custom"
    /\ \E o \in QueryOutcomes :
         /\ fc' = IF o.k = "error"
                  THEN FetchFailed([fc EXCEPT !.statements = Append(@,
                          CustomStatement(Val(config.comparison_query), fc,
                                          listing.location, config))])
                  ELSE [fc EXCEPT !.statements = Append(@,
                          CustomStatement(Val(config.comparison_query), fc,
                                          listing.location, config)),
                                  !.combined = Append(@, "custom"),
                                  !.customRows = o.n]
         /\ pc' = IF o.k = "error" THEN FetchReturnPc ELSE "fc_lot"
    /\ UNCHANGED <<config, cache, caller, listing, geo, geoPrev, rl, sc, fb, db, ev, pf, cm, mc>>

\* lines 542-543 and 399-401: _fetch_sales_comps is called
FetchSalesComps ==
    /\ pc = "fc_sales"
    /\ IF \/ ~config.use_sales_comps
          \/ ~SafeTable(config.sales_table)
          \/ ~SafeTable(config.properties_table)
       THEN /\ sc' = [NoComps EXCEPT !.returned = TRUE, !.isNone = TRUE,
                                     !.result.kind = "none"]
            /\ pc' = "fc_sales_done"
            /\ UNCHANGED <<caller, rl, ev, pf, cm, mc>>
       ELSE /\ sc' = NoComps
            /\ caller' = "comps"
            /\ rl' = NoResolve
            /\ pc' = "rl_enter"
    /\ UNCHANGED <<config, cache, listing, geo, geoPrev, fc, fb, db, ev, pf, cm, mc>>

\* lines 543-546: the result of _fetch_sales_comps is kept, with the
\* statements the call executed
FetchAfterSales ==
    /\ pc = "fc_sales_done"
    /\ fc' = [fc EXCEPT
                !.sales = sc.result,
                !.combined = IF sc.isNone THEN @ ELSE Append(@, "sales"),
                !.statements = @ \o LookupStatements(rl.lookups, config)
                                 \o SalesStatements(sc.queries, config)]
    /\ sc' = NoComps
    /\ rl' = NoResolve
    /\ caller' = "none"
    /\ pc' = IF Truthy(config.comparison_table) THEN "fc_builtin" ELSE "fc_lot"
    /\ UNCHANGED <<config, cache, listing, geo, geoPrev, fb, db, ev, pf, cm, mc>>

\* lines 645-678 when comparison_table is the table insert_fb_listing
\* writes: the rows of the listing itself that the query selects, as the
\* connection sees the table. The title of a stored row matches the LIKE
\* pattern made of the same title, and the bound of lines 662-665 holds for
\* a stored asking_price of at most 1.5 times the listing's price.
BoundedQuery(cfg, price_val) == Truthy(PriceColumn(cfg)) /\ IsSome(price_val)
WithinBound(row, price_val) ==
    /\ IsSome(row.derived.asking_price)
    /\ 2 * NumberOf(Val(row.derived.asking_price)) <= 3 * NumberOf(Val(price_val))
OwnRows(cfg, f, d) ==
    IF \/ Val(cfg.comparison_table) # cfg.fb_listings_table
       \/ TitleColumn(cfg) # ColTitle
       \/ BoundedQuery(cfg, _parse_price(f.price))
            /\ Val(PriceColumn(cfg)) # ColAskingPrice
    THEN {}
    ELSE {k \in DOMAIN d.work.listings :
            /\ d.work.listings[k].id = f.id
            /\ BoundedQuery(cfg, _parse_price(f.price))
                  => WithinBound(d.work.listings[k], _parse_price(f.price))}

\* line 598: the price field of the listing's own row, as the price line
\* reads it
OwnPrice(cfg, row) ==
    IF (Truthy(cfg.price_column) => Val(cfg.price_column) = ColAskingPrice)
       /\ IsSome(row.derived.asking_price)
    THEN [k |-> "num", v |-> NumberOf(Val(row.derived.asking_price))]
    ELSE [k |-> "null", v |-> 0]

\* the own row among the rows returned: LIMIT max_rows leaves room for it
OwnReturned(cfg, f, d, others) ==
    IF OwnRows(cfg, f, d) # {} /\ others < cfg.max_rows
    THEN Some(OwnPrice(cfg, d.work.listings[CHOOSE k \in OwnRows(cfg, f, d) : TRUE]))
    ELSE None

\* lines 546-553 and 645-678: _run_builtin_comparison; an error of the query
\* is caught at line 557
MaxFbRows == 2
BuiltinOutcomes ==
    {[k |-> "error", n |-> 0]} \cup {[k |-> "ok", n |-> n] : n \in 0..MaxFbRows}
FetchBuiltin ==
    /\ pc = "fc_builtin"
    /\ \E o \in BuiltinOutcomes :
         IF ~BuiltinTableOk(config)
         THEN /\ o = [k |-> "ok", n |-> 0]
              /\ fc' = fc
              /\ pc' = "fc_lot"
         ELSE /\ fc' = IF o.k = "error"
                       THEN FetchFailed([fc EXCEPT !.statements = Append(@,
                               BuiltinStatement(config, _parse_price(fc.price)))])
                       ELSE [fc EXCEPT !.statements = Append(@,
                               BuiltinStatement(config, _parse_price(fc.price))),
                                       !.combined = Append(@, "fb"),
                                       !.fbSet = TRUE,
                                       !.own = OwnReturned(config, fc, db, o.n),
                                       !.fbRows = o.n + Len(OwnReturned(config, fc,
                                                                       db, o.n))]
              /\ pc' = IF o.k = "error" THEN FetchReturnPc ELSE "fc_lot"
    /\ UNCHANGED <<config, cache, caller, listing, geo, geoPrev, rl, sc, fb, db, ev, pf, cm, mc>>

\* lines 554-556 and 705-708: _get_average_lot_rent is called, and calls
\* _resolve_location
FetchLotRent ==
    /\ pc = "fc_lot"
    /\ IF LotRentWanted(config, fc)
       THEN /\ caller' = "lot_rent"
            /\ rl' = NoResolve
            /\ pc' = "rl_enter"
       ELSE /\ pc' = "fc_compose"
            /\ UNCHANGED <<caller, rl, ev, pf, cm, mc>>
    /\ UNCHANGED <<config, cache, listing, geo, geoPrev, sc, fc, fb, db, ev, pf, cm, mc>>

\* lines 709-736: the three lookups of _get_average_lot_rent
LotRentLookedUp(scopes, os) ==
    /\ \A i \in DOMAIN scopes :
          (~LotQueried(scopes[i]) \/ \E h \in LotHits(scopes, os) : h < i)
              => os[i] = "norow"
    /\ fc' = [fc EXCEPT
                !.lot = LotLine(scopes, os),
                !.statements = @ \o LookupStatements(rl.lookups, config)
                                 \o LotStatements(config, LotExecuted(scopes, os))]
LotRentQuery ==
    /\ pc = "lr_query"
    /\ \E os \in [1..3 -> LotOutcomes] : LotRentLookedUp(LotScopes(config, rl), os)
    /\ rl' = NoResolve
    /\ caller' = "none"
    /\ pc' = "fc_compose"
    /\ UNCHANGED <<config, cache, listing, geo, geoPrev, sc, fb, db, ev, pf, cm, mc>>

\* the price field of a row of a source: NULL, a value float() rejects, or
\* a number
PriceValues == {216, 180, 160, 0, -60}
RowPrices ==
    {[k |-> "null", v |-> 0], [k |-> "text", v |-> 0]}
    \cup {[k |-> "num", v |-> x] : x \in PriceValues}
PriceLists(n) == [1..n -> RowPrices]

\* lines 577 and 599: the rows whose price field is not None
Usable(prices) == SelectSeq(prices, LAMBDA r : r.k # "null")

\* sum(prices)
SumOf(prices) ==
    LET acc[i \in 0..Len(prices)] ==
            IF i = 0 THEN 0 ELSE acc[i - 1] + prices[i].v
    IN  acc[Len(prices)]

\* lines 577-580 and 599-602: float() of a price field and the division by
\* the mean are outside every try block
PriceLineRaises(prices) ==
    \/ \E i \in DOMAIN prices : prices[i].k = "text"
    \/ (Usable(prices) # <<>> /\ SumOf(Usable(prices)) = 0)

Abs(x) == IF x < 0 THEN -x ELSE x

\* format(x, ".0f") of x = num / den >= 0: the nearest integer, a tie going
\* to the even one
RoundHalfUp(num, den) ==
    IF 2 * (num % den) >= den THEN (num \div den) + 1 ELSE num \div den
RoundHalfEven(num, den) ==
    IF 2 * (num % den) > den THEN (num \div den) + 1
    ELSE IF 2 * (num % den) = den THEN (num \div den) + ((num \div den) % 2)
    ELSE num \div den

\* lines 579-580 and 601-602: abs(pct) rounded, for the listing price lp and
\* n comparable prices of sum total: pct = ((lp - total/n) / (total/n)) * 100
PctShown(lp, total, n) == RoundHalfEven(Abs(lp * n - total) * 100, Abs(total))

\* lines 582 and 603: 'below' if pct < 0 else 'above'
IsBelowByMean(lp, total, n) == lp * n < total
IsBelow(lp, total, n) ==
    /\ lp * n # total
    /\ (lp * n < total) # (total < 0)

TxtVsZillow ==
    <<"V","s"," ","Z","i","l","l","o","w",":"," ">>
TxtVsFacebook ==
    <<"V","s"," ","F","a","c","e","b","o","o","k",":"," ">>
TxtPercent ==
    <<"%"," ">>
TxtBelow ==
    <<"b","e","l","o","w">>
TxtAbove ==
    <<"a","b","o","v","e">>
TxtZillowTail ==
    <<" ","a","v","e","r","a","g","e"," ","w","h","e","n"," ","c","o","m",
          "p","a","r","e","d"," ","t","o"," ","r","e","c","e","n","t","l",
          "y"," ","s","o","l","d"," ","Z","i","l","l","o","w"," ","l","i",
          "s","t","i","n","g","s">>
TxtComputedUsing ==
    <<" ","(","c","o","m","p","u","t","e","d"," ","u","s","i","n","g"," ">>
TxtClose ==
    <<")">>
TxtStop ==
    <<".">>
TxtFacebookTail ==
    <<" ","a","v","e","r","a","g","e"," ","w","h","e","n"," ","c","o","m",
          "p","a","r","e","d"," ","t","o"," ","s","i","m","i","l","a","r",
          " ","F","a","c","e","b","o","o","k"," ","M","a","r","k","e","t",
          "p","l","a","c","e"," ","l","i","s","t","i","n","g","s",".">>
TxtZillowNoComps ==
    <<"V","s"," ","Z","i","l","l","o","w",":"," ","n","o"," ","c","o","m",
          "p","s",".">>
TxtFacebookNoData ==
    <<"V","s"," ","F","a","c","e","b","o","o","k",":"," ","n","o"," ","d",
          "a","t","a",".">>
TxtScopeZip ==
    <<"z","i","p">>
TxtScopeCounty ==
    <<"c","o","u","n","t","y">>
TxtScopeRegion ==
    <<"r","e","g","i","o","n">>

\* the text of a scope name
ScopeText(scope) ==
    CASE scope = "zip" -> TxtScopeZip
      [] scope = "county" -> TxtScopeCounty
      [] OTHER -> TxtScopeRegion

\* lines 582 and 603: "{abs(pct):.0f}% {below|above}"
PctText(lp, total, n) ==
    Decimal(PctShown(lp, total, n)) \o TxtPercent
        \o (IF IsBelow(lp, total, n) THEN TxtBelow ELSE TxtAbove)

\* line 581: the scope the comps were computed with
ScopeNote(scope) ==
    IF IsSome(scope) THEN TxtComputedUsing \o ScopeText(Val(scope)) \o TxtClose
    ELSE <<>>

\* lines 576-596: the Zillow sentences of concise_parts
ZillowSentence(lp, usable, scope) ==
    IF usable = <<>> THEN TxtZillowNoComps
    ELSE TxtVsZillow \o PctText(lp, SumOf(usable), Len(usable))
            \o TxtZillowTail \o ScopeNote(scope) \o TxtStop
ZillowLineAlways(f, price_val, prices) ==
    IF f.sales.nrows > 0 /\ IsSome(price_val)
    THEN <<ZillowSentence(NumberOf(Val(price_val)), Usable(prices), f.sales.scope)>>
    ELSE <<TxtZillowNoComps>>
ZillowLine(f, price_val, prices) ==
    IF f.sales.nrows > 0 /\ IsSome(price_val)
    THEN <<ZillowSentence(NumberOf(Val(price_val)), Usable(prices), f.sales.scope)>>
    ELSE IF config.use_sales_comps THEN <<TxtZillowNoComps>> ELSE <<>>

\* lines 597-607: the Facebook sentences of concise_parts
FacebookSentence(lp, usable) ==
    IF usable = <<>> THEN TxtFacebookNoData
    ELSE TxtVsFacebook \o PctText(lp, SumOf(usable), Len(usable))
            \o TxtFacebookTail
FacebookLine(f, price_val, prices) ==
    IF f.fbSet /\ f.fbRows > 0 /\ IsSome(price_val)
    THEN <<FacebookSentence(NumberOf(Val(price_val)), Usable(prices))>>
    ELSE IF Truthy(config.comparison_table) THEN <<TxtFacebookNoData>> ELSE <<>>

\* sep.join(parts)
JoinWith(parts, sep) ==
    LET acc[i \in 0..Len(parts)] ==
            IF i = 0 THEN <<>>
            ELSE IF i = 1 THEN parts[1]
            ELSE acc[i - 1] \o sep \o parts[i]
    IN  acc[Len(parts)]

\* line 608: " ".join(concise_parts)
JoinParts(parts) == JoinWith(parts, <<" ">>)

TxtNoSimilar ==
    <<"N","o"," ","s","i","m","i","l","a","r"," ","l","i","s","t","i","n",
          "g","s"," ","f","o","u","n","d"," ","i","n"," ","t","h","e"," ",
          "d","a","t","a","b","a","s","e",".">>
TxtSimilarHead ==
    <<"S","i","m","i","l","a","r"," ","o","r"," ","r","e","l","a","t","e",
          "d"," ","l","i","s","t","i","n","g","s"," ","f","r","o","m"," ",
          "y","o","u","r"," ","d","a","t","a","b","a","s","e",":","\n">>
TxtSoldHead ==
    <<"R","e","c","e","n","t"," ","s","o","l","d"," ","c","o","m","p","s",
          " ","(">>
TxtSoldArea ==
    <<","," ","a","r","e","a">>
TxtSoldTail ==
    <<")",":","\n">>
\* the arrow of the text is the element "->"
TxtNoSalesComps ==
    <<"N","o"," ","r","e","c","e","n","t"," ","s","a","l","e","s"," ","c",
          "o","m","p","s"," ","f","o","u","n","d"," ","f","o","r"," ","t",
          "h","i","s"," ","l","o","c","a","t","i","o","n"," ","(","z","i",
          "p"," ","->"," ","c","o","u","n","t","y"," ","->"," ","r","e","g",
          "i","o","n",")",".">>
TxtNoneValue ==
    <<"N","o","n","e">>
TxtNotNumber ==
    <<"n","/","a">>
TxtSalePrice ==
    <<"s","a","l","e","_","p","r","i","c","e">>
TxtAskingPrice ==
    <<"a","s","k","i","n","g","_","p","r","i","c","e">>

\* str(v) of a price field
SignedDecimal(n) == IF n < 0 THEN <<"-">> \o Decimal(-n) ELSE Decimal(n)
PriceFieldText(r) ==
    CASE r.k = "null" -> TxtNoneValue
      [] r.k = "text" -> TxtNotNumber
      [] OTHER -> SignedDecimal(r.v)

\* lines 684-686: the line of row i; a row is shown by one column
RowLine(i, label, value) ==
    <<" ", " ">> \o Decimal(i) \o <<".", " ">> \o label \o <<":", " ">> \o value

\* lines 680-687: _rows_to_summary
_rows_to_summary(lines) ==
    IF lines = <<>> THEN TxtNoSimilar
    ELSE TxtSimilarHead \o JoinWith(lines, <<"\n">>)

\* the rows of a source, each shown by its price column
PriceRows(prices, label) ==
    [i \in DOMAIN prices |-> RowLine(i, label, PriceFieldText(prices[i]))]

\* line 598: the column the Facebook prices are read from
FbPriceLabel(cfg) ==
    IF Truthy(cfg.price_column) THEN Val(cfg.price_column) ELSE TxtAskingPrice

\* lines 461, 494 and 503-507: the summary of _fetch_sales_comps
SalesSummary(sales, rows) ==
    CASE sales.kind = "comps" ->
            TxtSoldHead \o ScopeText(Val(sales.scope)) \o TxtSoldTail
                \o _rows_to_summary(rows)
      [] sales.kind = "area" ->
            TxtSoldHead \o ScopeText(Val(sales.scope)) \o TxtSoldArea
                \o TxtSoldTail \o _rows_to_summary(rows)
      [] OTHER -> TxtNoSalesComps

\* the rows of the custom query, each shown by its title
CustomRows(f) ==
    [i \in 1..f.customRows |-> RowLine(i, <<"t","i","t","l","e">>, f.title)]

\* lines 540-553: the summaries appended to combined_parts
PartSummary(tag, f, salesRows, fbRows) ==
    CASE tag = "custom" -> _rows_to_summary(CustomRows(f))
      [] tag = "sales" -> SalesSummary(f.sales, salesRows)
      [] OTHER -> _rows_to_summary(fbRows)

\* line 611: "\n\n".join(combined_parts)
Summary(f, salesRows, fbRows) ==
    JoinWith([i \in DOMAIN f.combined |->
                 PartSummary(f.combined[i], f, salesRows, fbRows)],
             <<"\n", "\n">>)

\* lines 567-617
Compose(f, price_val, sp, fp) ==
    IF f.combined = <<>> THEN FetchNone(f)
    ELSE IF f.sales.nrows > 0 /\ IsSome(price_val) /\ PriceLineRaises(sp)
    THEN FetchRaised(f)
    ELSE IF f.fbSet /\ f.fbRows > 0 /\ IsSome(price_val) /\ PriceLineRaises(fp)
    THEN FetchRaised(f)
    ELSE [f EXCEPT !.active = FALSE, !.returned = TRUE,
                   !.concise_parts = ZillowLine(f, price_val, sp)
                                     \o FacebookLine(f, price_val, fp),
                   !.concise = JoinParts(ZillowLine(f, price_val, sp)
                                         \o FacebookLine(f, price_val, fp)),
                   !.sales_scope = f.sales.scope,
                   !.summary = Summary(f, PriceRows(sp, TxtSalePrice),
                                       PriceRows(fp, FbPriceLabel(config)))]

\* the prices of the rows matter only when the sentence is computed
PricesRead(f, nrows) == nrows > 0 /\ IsSome(_parse_price(f.price))
NullPrices(n) == [i \in 1..n |-> [k |-> "null", v |-> 0]]

\* lines 561-617: cursor.close() of line 563, then the result is composed
FetchCompose ==
    /\ pc = "fc_compose"
    /\ \E sp \in PriceLists(fc.sales.nrows), fp \in PriceLists(fc.fbRows) :
         /\ ~PricesRead(fc, fc.sales.nrows) => sp = NullPrices(fc.sales.nrows)
         /\ ~PricesRead(fc, fc.fbRows) => fp = NullPrices(fc.fbRows)
         /\ (PricesRead(fc, fc.fbRows) /\ IsSome(fc.own))
               => \E i \in DOMAIN fp : fp[i] = Val(fc.own)
         /\ fc' = Compose(CloseCursor([fc EXCEPT !.salesPrices = sp,
                                                  !.fbPrices = fp]),
                          _parse_price(fc.price), sp, fp)
    /\ pc' = FetchReturnPc
    /\ UNCHANGED <<config, cache, caller, listing, geo, geoPrev, rl, sc, fb, db, ev, pf, cm, mc>>

(***************************************************************************)
(* insert_fb_listing                                                       *)
(***************************************************************************)
\* insert_fb_listing is called at most MaxCalls times
MaxCalls == 2

\* listing.id values
ExtIds == {"fb1", "fb2"}

\* The store as the connection sees it: the committed listings and history
\* rows, the rows of the open transaction (work), the number of calls made
\* (NOW() of a call), and for every call that returned True what it wrote.
EmptyStore ==
    [listings |-> <<>>, history |-> <<>>,
     work |-> [listings |-> <<>>, history |-> <<>>],
     calls |-> 0, failed |-> 0, log |-> <<>>]

\* no insert_fb_listing call in progress
NoInsert ==
    [active |-> FALSE, returned |-> FALSE, raised |-> FALSE, ret |-> FALSE,
     connected |-> FALSE, id |-> "", title |-> <<>>, price |-> <<>>,
     values |-> None, writes |-> <<>>, commits |-> <<>>, rollbacks |-> <<>>,
     historyTried |-> FALSE, before |-> <<>>, cursor |-> "none"]

\* lines 808-813: the four statements, in the order tried
InsertVariants ==
    <<[posted |-> TRUE, updated |-> TRUE],
      [posted |-> TRUE, updated |-> FALSE],
      [posted |-> FALSE, updated |-> TRUE],
      [posted |-> FALSE, updated |-> FALSE]>>

\* what a write meets: it succeeds, it fails with a message that names an
\* unknown column, posted_date or updated_at, or it fails with another message
WriteOutcomes == {"ok", "column_error", "other_error"}

\* lines 770-783: the values bound to the statement
InsertValues(f, loc, r) ==
    [id |-> f.id,
     title |-> Truncate(f.title, 500),
     asking_price |-> _parse_price(f.price),
     zip |-> IF IsSome(r.zip) THEN r.zip ELSE loc.parts.zip,
     county_id |-> r.county,
     region_id |-> r.region]

\* the derived columns, which ON DUPLICATE KEY UPDATE sets (lines 784-795)
Derived(v) ==
    [title |-> v.title, asking_price |-> v.asking_price, zip |-> v.zip,
     county_id |-> v.county_id, region_id |-> v.region_id]

\* lines 796-805: the new row of INSERT: posted_date is NOW() when the
\* statement names the column, NULL otherwise
NewRow(v, variant, now) ==
    [id |-> v.id, derived |-> Derived(v),
     posted_date |-> IF variant.posted THEN Some(now) ELSE None,
     updated_at |-> None]

\* lines 784-795: the update of the row that holds the key: the derived
\* columns, and updated_at when the statement names it
UpdatedRowResetsPosted(row, v, variant, now) ==
    [row EXCEPT !.derived = Derived(v),
                !.posted_date = IF variant.posted THEN Some(now) ELSE None,
                !.updated_at = IF variant.updated THEN Some(now) ELSE @]
UpdatedRow(row, v, variant, now) ==
    [row EXCEPT !.derived = Derived(v),
                !.updated_at = IF variant.updated THEN Some(now) ELSE @]

\* INSERT ... ON DUPLICATE KEY UPDATE on a table whose key is external_id
Upsert(rows, v, variant, now) ==
    IF \E i \in DOMAIN rows : rows[i].id = v.id
    THEN [i \in DOMAIN rows |->
            IF rows[i].id = v.id THEN UpdatedRow(rows[i], v, variant, now)
            ELSE rows[i]]
    ELSE Append(rows, NewRow(v, variant, now))

\* lines 831-834: the row of the history table
HistoryRow(v, now) ==
    [id |-> v.id, asking_price |-> v.asking_price, recorded_at |-> now]

HistoryWantedWithoutPrice(cfg, v) ==
    /\ Truthy(cfg.fb_listing_history_table)
    /\ SafeTable(Val(cfg.fb_listing_history_table))

\* line 829: the history row is written
HistoryWanted(cfg, v) ==
    /\ Truthy(cfg.fb_listing_history_table)
    /\ SafeTable(Val(cfg.fb_listing_history_table))
    /\ IsSome(v.asking_price)

\* lines 740-743: nothing to do
InsertDisabled(cfg) ==
    \/ ~cfg.enabled
    \/ ~SafeTable(cfg.fb_listings_table)
    \/ ~cfg.insert_into_fb

\* return True / return False (lines 741, 743, 753, 845, 855)
InsertReturns(f, b) ==
    [f EXCEPT !.active = FALSE, !.returned = TRUE, !.ret = b]

\* lines 806-860: a return inside the try block: the finally clause runs
InsertLeaves(f, b) == InsertReturns(CloseCursor(f), b)

\* an exception leaves insert_fb_listing
InsertRaised(f) ==
    [f EXCEPT !.active = FALSE, !.returned = TRUE, !.raised = TRUE]

\* line 755: creating the cursor is outside every try block
OnInsertCursorFailure(f) == InsertRaised(f)

\* lines 740-755
InsertStart(f, conn, cur) ==
    IF InsertDisabled(config) THEN InsertReturns(f, FALSE)
    ELSE IF conn = "fail" THEN InsertReturns(f, FALSE)
    ELSE IF cur = "raises" THEN OnInsertCursorFailure([f EXCEPT !.connected = TRUE])
    ELSE [f EXCEPT !.active = TRUE, !.connected = TRUE, !.cursor = "open"]

\* the store after a call that did not return True
CallFailed(d) == [d EXCEPT !.failed = @ + 1]

InsertBegin(f) ==
    /\ fb' = f
    /\ db' = IF f.active THEN [db EXCEPT !.calls = @ + 1]
             ELSE CallFailed([db EXCEPT !.calls = @ + 1])
    /\ pc' = IF f.active THEN "rl_enter" ELSE InsertReturnPc
    /\ caller' = IF f.active THEN "insert" ELSE "none"

\* what the caller passes
InsertInputs ==
    {[id |-> i, title |-> t, price |-> p] :
        i \in ExtIds, t \in {TxtTitleHome, TxtTitleQuote}, p \in {<<>>, TxtPrice180}}

\* lines 740-760 for the listing inp at the location loc; the connection
\* and the cursor are the environment's
InsertEnter(inp, loc) ==
    /\ \E conn \in {"ok", "fail"}, cur \in {"ok", "raises"} :
         /\ (InsertDisabled(config) \/ conn = "fail") => cur = "ok"
         /\ InsertDisabled(config) => conn = "ok"
         /\ InsertBegin(InsertStart(
                [NoInsert EXCEPT !.id = inp.id, !.title = inp.title,
                                 !.price = inp.price, !.before = db.listings],
                conn, cur))
    /\ listing' = [location |-> loc, beds |-> None, baths |-> None,
                   year_built |-> None]
    /\ rl' = NoResolve
    /\ sc' = NoComps
    /\ geo' = NoGeo
    /\ geoPrev' = GeoBrief(NoGeo)

\* insert_fb_listing(listing): lines 740-760, up to the call of
\* _resolve_location
InsertCall ==
    /\ pc = "idle"
    /\ db.calls < MaxCalls
    /\ \E inp \in InsertInputs :
         /\ db.calls = 0 => inp.id = "fb1"
         /\ InsertEnter(inp, LocCityStateZip)
    /\ UNCHANGED <<config, cache, fc, ev, pf, cm, mc>>

\* lines 817-824: what follows a write that failed
AfterWriteFailureAlwaysRetries(o, tried) ==
    IF tried < Len(InsertVariants) THEN "fb_write" ELSE "fb_rollback"
AfterWriteFailure(o, tried) ==
    IF o = "column_error" /\ tried < Len(InsertVariants) THEN "fb_write"
    ELSE "fb_rollback"

\* lines 761-783: _resolve_location has returned; the values are built
InsertValuesBuilt ==
    /\ pc = "fb_values"
    /\ fb' = [fb EXCEPT
                !.values = Some(InsertValues(fb, LocTable[listing.location], rl))]
    /\ rl' = NoResolve
    /\ caller' = "none"
    /\ pc' = "fb_write"
    /\ UNCHANGED <<config, cache, listing, geo, geoPrev, sc, fc, db, ev, pf, cm, mc>>

\* lines 808-824: one round of the loop over the variants
WriteTried(f, v, o, variant) ==
    /\ fb' = [f EXCEPT !.writes = Append(@, [variant |-> variant, o |-> o])]
    /\ db' = IF o = "ok"
             THEN [db EXCEPT !.work.listings = Upsert(@, v, variant, db.calls)]
             ELSE db
    /\ pc' = IF o = "ok" THEN "fb_commit"
             ELSE AfterWriteFailure(o, Len(f.writes) + 1)
InsertWrite ==
    /\ pc = "fb_write"
    /\ \E o \in WriteOutcomes :
         WriteTried(fb, Val(fb.values), o, InsertVariants[Len(fb.writes) + 1])
    /\ UNCHANGED <<config, cache, caller, listing, geo, geoPrev, rl, sc, fc, ev, pf, cm, mc>>

\* line 825: client.commit() makes the open transaction durable
Committed(d) ==
    [d EXCEPT !.listings = d.work.listings, !.history = d.work.history]

\* client.rollback() discards the open transaction
RolledBack(d) ==
    [d EXCEPT !.work = [listings |-> d.listings, history |-> d.history]]

\* the call returns True: what it wrote is logged
Logged(d, v, variant) ==
    [d EXCEPT !.log = Append(@, [id |-> v.id, derived |-> Derived(v),
                                  now |-> d.calls, posted |-> variant.posted])]

\* the variant of the write that succeeded
UsedVariant(f) == InsertVariants[Len(f.writes)]

\* lines 825-829: the commit of the upsert
InsertCommit ==
    /\ pc = "fb_commit"
    /\ \E o \in {"ok", "fail"} :
         /\ fb' = IF o = "ok" /\ ~HistoryWanted(config, Val(fb.values))
                  THEN InsertLeaves([fb EXCEPT !.commits = Append(@, o)], TRUE)
                  ELSE [fb EXCEPT !.commits = Append(@, o)]
         /\ db' = IF o = "fail" THEN db
                  ELSE IF HistoryWanted(config, Val(fb.values)) THEN Committed(db)
                  ELSE Logged(Committed(db), Val(fb.values), UsedVariant(fb))
         /\ pc' = IF o = "fail" THEN "fb_rollback"
                  ELSE IF HistoryWanted(config, Val(fb.values)) THEN "fb_history"
                  ELSE InsertReturnPc
    /\ UNCHANGED <<config, cache, caller, listing, geo, geoPrev, rl, sc, fc, ev, pf, cm, mc>>

\* lines 829-845: the history row is inserted and committed; when either
\* fails a rollback is tried and its failure ignored
HistoryAborts(f, d, rb) ==
    [fb |-> InsertLeaves([f EXCEPT !.rollbacks = Append(@, rb)], FALSE),
     db |-> CallFailed(IF rb = "ok" THEN RolledBack(d) ELSE d)]
HistoryFails(f, d, rb) ==
    [fb |-> InsertLeaves([f EXCEPT !.rollbacks = Append(@, rb)], TRUE),
     db |-> IF rb = "ok" THEN RolledBack(d) ELSE d]
HistoryOutcome(f, d, o, rb) ==
    CASE o = "ok" ->
            [fb |-> InsertLeaves([f EXCEPT !.commits = Append(@, "ok")], TRUE),
             db |-> Committed([d EXCEPT !.work.history =
                        Append(@, HistoryRow(Val(f.values), d.calls))])]
      [] o = "exec_fail" -> HistoryFails(f, d, rb)
      [] OTHER ->
            HistoryFails([f EXCEPT !.commits = Append(@, "fail")],
                         [d EXCEPT !.work.history =
                            Append(@, HistoryRow(Val(f.values), d.calls))], rb)
HistoryDone(after) ==
    /\ fb' = after.fb
    /\ db' = IF after.fb.ret
             THEN Logged(after.db, Val(fb.values), UsedVariant(fb))
             ELSE after.db
InsertHistory ==
    /\ pc = "fb_history"
    /\ \E o \in {"ok", "exec_fail", "commit_fail"}, rb \in {"ok", "fail"} :
         /\ o = "ok" => rb = "ok"
         /\ HistoryDone(HistoryOutcome(
                [fb EXCEPT !.historyTried = TRUE],
                db, o, rb))
    /\ pc' = InsertReturnPc
    /\ UNCHANGED <<config, cache, caller, listing, geo, geoPrev, rl, sc, fc, ev, pf, cm, mc>>

\* lines 846-855: the write or the commit failed: a rollback is tried, its
\* failure ignored, and False returned
InsertRollback ==
    /\ pc = "fb_rollback"
    /\ \E rb \in {"ok", "fail"} :
         /\ fb' = InsertLeaves([fb EXCEPT !.rollbacks = Append(@, rb)], FALSE)
         /\ db' = CallFailed(IF rb = "ok" THEN RolledBack(db) ELSE db)
    /\ pc' = InsertReturnPc
    /\ UNCHANGED <<config, cache, caller, listing, geo, geoPrev, rl, sc, fc, ev, pf, cm, mc>>

(***************************************************************************)
(* MySQLCompare._get_client and MySQLCompare.close                         *)
(***************************************************************************)
\* _get_client and close are called at most MaxSessionCalls times
MaxSessionCalls == 5

\* line 176: self._client is None (0); a connection is its number, counted in
\* the order the connections were opened
NoSession == [client |-> 0, opened |-> 0, calls |-> <<>>]

\* what a connect meets (lines 184-217): mysql.connector connects or raises;
\* without mysql.connector, pymysql connects or raises; neither is installed
ConnectOutcomes ==
    {"connector_ok", "connector_error", "pymysql_ok", "pymysql_error", "no_driver"}
Connects(o) == o \in {"connector_ok", "pymysql_ok"}

\* lines 178-217: the stored client, else a new connection that is stored
\* when the connect returns; an exception leaves self._client as it was
_get_client(m, o) ==
    IF m.client # 0
    THEN [m EXCEPT !.calls = Append(@, [op |-> "get", how |-> "stored", ret |-> m.client])]
    ELSE IF Connects(o)
    THEN [client |-> m.opened + 1, opened |-> m.opened + 1,
          calls |-> Append(m.calls, [op |-> "get", how |-> o, ret |-> m.opened + 1])]
    ELSE [m EXCEPT !.calls = Append(@, [op |-> "get", how |-> o, ret |-> 0])]

\* lines 219-225: with a client stored, close it, ignore what closing raises
\* and forget it
CloseKeepsClientOnError(m, o) ==
    IF m.client = 0
    THEN [m EXCEPT !.calls = Append(@, [op |-> "close", how |-> "nothing", ret |-> 0])]
    ELSE [m EXCEPT !.client = IF o = "raised" THEN @ ELSE 0,
                   !.calls = Append(@, [op |-> "close", how |-> o, ret |-> m.client])]
close(m, o) ==
    IF m.client = 0
    THEN [m EXCEPT !.calls = Append(@, [op |-> "close", how |-> "nothing", ret |-> 0])]
    ELSE [m EXCEPT !.client = 0,
                   !.calls = Append(@, [op |-> "close", how |-> o, ret |-> m.client])]

\* an operation (fetch_comparison line 525, insert_fb_listing line 749) calls
\* self._get_client()
GetClientCall ==
    /\ pc = "idle"
    /\ Len(mc.calls) < MaxSessionCalls
    /\ \E o \in ConnectOutcomes :
         /\ mc.client # 0 => o = "connector_ok"
         /\ mc' = _get_client(mc, o)
    /\ UNCHANGED <<config, cache, pc, caller, listing, geo, geoPrev, rl, sc, fc, fb, db,
                   ev, pf, cm>>

\* close() is called (OllamaMySQLBackend.__del__, or the owner of the object)
CloseCall ==
    /\ pc = "idle"
    /\ Len(mc.calls) < MaxSessionCalls
    /\ \E o \in {"closed", "raised"} :
         /\ mc.client = 0 => o = "closed"
         /\ mc' = close(mc, o)
    /\ UNCHANGED <<config, cache, pc, caller, listing, geo, geoPrev, rl, sc, fc, fb, db,
                   ev, pf, cm>>

(***************************************************************************)
(* Initial states and specifications.                                      *)
(***************************************************************************)
\* the persistent cache may hold entries of earlier runs
InitialCaches ==
    {EmptyCache,
     CacheSet(EmptyCache, GeoTable[<<TxtErie, TxtPA>>].key, NoResultMarker),
     CacheSet(EmptyCache, GeoTable[<<TxtErie, TxtPA>>].key, Zip16509)}

\* a listing with nothing in it
EmptyListing ==
    [id |-> "none", title |-> <<>>, price |-> <<>>, location |-> <<>>,
     beds |-> None, description |-> <<>>]

\* no evaluate call in progress
NoEvaluate ==
    [active |-> FALSE, returned |-> FALSE, raised |-> FALSE, calls |-> 0,
     inp |-> EmptyListing, comment |-> <<>>, post_url |-> <<>>, out |-> <<>>,
     accepted |-> FALSE, stage |-> "none", promptOwn |-> None,
     promptStore |-> <<>>, commentStore |-> <<>>]

\* no function applied
NoApply == [fn |-> "none", arg |-> <<>>, done |-> FALSE, out |-> None]

(***************************************************************************)
(* OllamaMySQLBackend.evaluate                                             *)
(***************************************************************************)
MaxEvaluations == 1

\* AIResponse.NOT_EVALUATED, and a comment of the model
TxtNotEvaluated == <<"N","o","t"," ","e","v","a","l","u","a","t","e","d">>
TxtAiComment == <<"F","a","i","r">>
TxtPostUrl == <<"f","b",".","c","o","m","/","1">>
TxtDbSeparator == <<" ","|"," ","D","B",":"," ">>
TxtListingUrl == <<"\n","L","i","s","t","i","n","g"," ","U","R","L",":"," ">>
TxtEllipsis == <<".",".",".">>
ShortLength == 120

\* lines 79-89: the engine holds no MySQLCompare
MysqlAbsent(cfg) ==
    ~(cfg.enabled /\ (\/ cfg.use_sales_comps
                      \/ IsSome(cfg.comparison_query)
                      \/ Truthy(cfg.comparison_table)
                      \/ cfg.insert_into_fb))

\* lines 135-136
InsertWanted(cfg) == cfg.insert_into_fb /\ cfg.insert_all_evaluated

\* line 143: summary.replace("\n", " ").strip()
OneLine(t) == Strip([i \in DOMAIN t |-> IF t[i] = "\n" THEN " " ELSE t[i]])

\* lines 144-145: the short format keeps the first 120 characters
Shortened(t) ==
    IF Len(t) > ShortLength THEN SubSeq(t, 1, ShortLength) \o TxtEllipsis ELSE t

\* lines 141-146: the text that follows the comment
DbText(cfg, f) ==
    IF f.isNone \/ f.summary = <<>> \/ cfg.output_format = "none" THEN <<>>
    ELSE TxtDbSeparator \o (IF cfg.output_format = "short"
                             THEN Shortened(OneLine(f.summary))
                             ELSE OneLine(f.summary))

\* lines 147-148
UrlText(post_url) == IF post_url = <<>> THEN <<>> ELSE TxtListingUrl \o post_url

\* lines 138-151: the comment of the response evaluate returns
EvaluatedComment(cfg, e, f) ==
    IF e.comment = TxtNotEvaluated THEN e.comment
    ELSE e.comment \o DbText(cfg, f) \o UrlText(e.post_url)

\* what the monitor passes: the listing
EvalInputs ==
    {[inp |-> [EmptyListing EXCEPT !.id = "fb1", !.title = TxtTitleHome,
                                   !.price = TxtPrice180,
                                   !.location = LocCityStateZip],
      post_url |-> u] : u \in {<<>>, TxtPostUrl}}

\* the responses of the model
Responses == {TxtNotEvaluated, TxtAiComment}

\* what evaluate still holds of insert_fb_listing once it has returned
InsertOutcome(b) ==
    [NoInsert EXCEPT !.returned = b.returned, !.ret = b.ret,
                     !.cursor = b.cursor]

\* lines 121-129 and 97-108: evaluate(listing, item_config,
\* marketplace_config) calls the evaluate of OllamaBackend, which builds the
\* prompt before it calls the model; get_prompt calls fetch_comparison when
\* the engine holds a MySQLCompare
EvaluateCall ==
    /\ pc = "idle"
    /\ ev.calls < MaxEvaluations
    /\ db.calls < MaxCalls
    /\ \E i \in EvalInputs :
         /\ ev' = [ev EXCEPT !.active = TRUE,
                             !.returned = FALSE,
                             !.raised = FALSE,
                             !.stage = "prompt",
                             !.calls = @ + 1,
                             !.inp = i.inp,
                             !.post_url = i.post_url]
         /\ IF MysqlAbsent(config)
            THEN /\ pc' = "ev_model"
                 /\ fc' = NoFetch
                 /\ UNCHANGED <<caller, listing, geo, geoPrev, rl, sc>>
            ELSE FetchEnter(i.inp, "ev_model")
    /\ fb' = NoInsert
    /\ UNCHANGED <<config, cache, db, pf, cm, mc>>

\* lines 109-119 and 129-133: the comparison is written into the prompt,
\* the model answers, and without a MySQLCompare the response is returned;
\* an exception of fetch_comparison has left evaluate
EvalModel ==
    /\ pc = "ev_model"
    /\ IF fc.raised
       THEN ev' = [ev EXCEPT !.active = FALSE, !.returned = TRUE, !.raised = TRUE]
       ELSE \E c \in Responses :
              /\ c = TxtNotEvaluated => ev.post_url = <<>>
              /\ ev' = [ev EXCEPT !.active = ~MysqlAbsent(config),
                                  !.returned = MysqlAbsent(config),
                                  !.stage = "comment",
                                  !.comment = c,
                                  !.promptOwn = fc.own,
                                  !.promptStore = db.work.listings,
                                  !.out = IF MysqlAbsent(config) THEN c ELSE <<>>]
    /\ pc' = IF fc.raised \/ MysqlAbsent(config) THEN "idle" ELSE "ev_insert"
    /\ fc' = IF fc.raised THEN fc ELSE NoFetch
    /\ UNCHANGED <<config, cache, caller, listing, geo, geoPrev, rl, sc, fb, db, pf, cm, mc>>

\* lines 134-136: insert_fb_listing is called when both flags are set
EvalInsert ==
    /\ pc = "ev_insert"
    /\ IF InsertWanted(config)
       THEN /\ InsertEnter(ev.inp, ev.inp.location)
            /\ UNCHANGED <<config, cache, fc, ev, pf, cm, mc>>
       ELSE /\ pc' = "ev_fetch"
            /\ UNCHANGED <<config, cache, caller, listing, geo, geoPrev, rl, sc,
                           fc, fb, db, ev, pf, cm, mc>>

\* line 137: fetch_comparison is called; an exception of insert_fb_listing
\* has left evaluate
EvalFetch ==
    /\ pc = "ev_fetch"
    /\ IF fb.raised
       THEN /\ ev' = [ev EXCEPT !.active = FALSE, !.returned = TRUE,
                                !.raised = TRUE]
            /\ pc' = "idle"
            /\ UNCHANGED <<config, cache, caller, listing, geo, geoPrev, rl, sc,
                           fc, fb, db, pf, cm, mc>>
       ELSE /\ FetchEnter(ev.inp, "ev_finish")
            /\ fb' = InsertOutcome(fb)
            /\ UNCHANGED <<config, cache, db, ev, pf, cm, mc>>

\* lines 138-151: the comment is extended and the response returned; an
\* exception of fetch_comparison has left evaluate
EvalFinish ==
    /\ pc = "ev_finish"
    /\ ev' = IF fc.raised
             THEN [ev EXCEPT !.active = FALSE, !.returned = TRUE, !.raised = TRUE]
             ELSE [ev EXCEPT !.active = FALSE, !.returned = TRUE,
                             !.commentStore = db.work.listings,
                             !.out = EvaluatedComment(config, ev, fc)]
    /\ pc' = "idle"
    /\ UNCHANGED <<config, cache, caller, listing, geo, geoPrev, rl, sc, fc, fb,
                   db, pf, cm, mc>>

\* lines 153-162: on_listing_accepted(listing, ...) for the listing that
\* evaluate has answered: insert_fb_listing is called when the engine holds
\* a MySQLCompare
OnListingAccepted ==
    /\ pc = "idle"
    /\ ev.returned /\ ~ev.raised /\ ~ev.accepted
    /\ db.calls < MaxCalls
    /\ ev' = [ev EXCEPT !.accepted = TRUE]
    /\ IF MysqlAbsent(config)
       THEN UNCHANGED <<config, cache, pc, caller, listing, geo, geoPrev, rl, sc,
                        fc, fb, db, pf, cm, mc>>
       ELSE /\ InsertEnter(ev.inp, ev.inp.location)
            /\ UNCHANGED <<config, cache, fc, pf, cm, mc>>

(***************************************************************************)
(* craigslist_monitor.main: load_seen, save_seen, run_once                 *)
(***************************************************************************)
\* the ids the feed can carry, the longest feed, the number of runs, and
\* max_size of save_seen (5000 in main.py line 36) on the scale of the ids
ListingIds == {"a", "b", "c"}
MaxListings == 2
MaxRuns == 3
MaxSizeKept == 2

\* STATE_FILE is missing before the first save
NoMonitor ==
    [file |-> [state |-> "missing", ids |-> {}],
     runs |-> 0, notify |-> FALSE, feed |-> <<>>, todo |-> <<>>,
     loaded |-> {}, seen |-> {}, new_count |-> 0, sentNow |-> <<>>,
     saved |-> "none", processedBefore |-> {}, failedBefore |-> {}]

\* lines 24-33: load_seen(): the ids of the file; the empty set when the
\* file is missing or cannot be read as JSON
load_seen(file) == IF file.state = "ok" THEN file.ids ELSE {}

\* lines 38-40: list(seen)[-max_size:]: the order of a set is arbitrary, so
\* any max_size of the ids may be the ones kept
KeptIds(seen) ==
    IF Cardinality(seen) > MaxSizeKept
    THEN {k \in SUBSET seen : Cardinality(k) = MaxSizeKept}
    ELSE {seen}

\* lines 41-45: the file after save_seen: written; left as it was when
\* open() fails; cut short when the write fails; the error is logged only
SaveOutcomes == {"ok", "unchanged", "cut"}
FileAfterSave(file, ids, w) ==
    CASE w = "ok" -> [state |-> "ok", ids |-> ids]
      [] w = "unchanged" -> file
      [] OTHER -> [state |-> "corrupt", ids |-> {}]

\* lines 75-76: the id joins seen before the send and whatever it returns
SeenAfterOnSuccess(seen, id, ok) == IF ok THEN seen \cup {id} ELSE seen
SeenAfter(seen, id, ok) == seen \cup {id}

\* what fetch_listings returns: the ids of the entries, in feed order
Feeds == UNION {[1..n -> ListingIds] : n \in 0..MaxListings}

\* the ids of the sends that failed
FailedIn(sent) == {sent[k].id : k \in {j \in DOMAIN sent : ~sent[j].ok}}

\* lines 48-70: run_once(config) up to the loop: load_seen, then
\* fetch_listings; when the fetch raises, seen is returned and nothing saved.
\* main() loads the configuration once, so every run has the same token
RunOnceCall ==
    /\ pc = "idle"
    /\ cm.runs < MaxRuns
    /\ \E tg \in BOOLEAN, fetched \in BOOLEAN, feed \in Feeds :
         /\ ~fetched => feed = <<>>
         /\ cm.runs > 0 => tg = cm.notify
         /\ cm' = [cm EXCEPT
                     !.runs = @ + 1,
                     !.notify = tg,
                     !.feed = feed,
                     !.todo = feed,
                     !.loaded = load_seen(cm.file),
                     !.seen = load_seen(cm.file),
                     !.new_count = 0,
                     !.sentNow = <<>>,
                     !.saved = "none",
                     !.processedBefore = @ \cup (cm.seen \ cm.loaded),
                     !.failedBefore = @ \cup FailedIn(cm.sentNow)]
         /\ pc' = IF fetched THEN "cm_loop" ELSE "idle"
    /\ UNCHANGED <<config, cache, caller, listing, geo, geoPrev, rl, sc, fc, fb,
                   db, ev, pf, mc>>

\* lines 72-80 and telegram_notify.py 12-24: one listing of the loop; an id
\* in seen is skipped; send_telegram returns True or False and never raises
RunOnceListing ==
    /\ pc = "cm_loop"
    /\ cm.todo # <<>>
    /\ LET id == Head(cm.todo) IN
         IF id \in cm.seen
         THEN cm' = [cm EXCEPT !.todo = Tail(@)]
         ELSE \E ok \in BOOLEAN :
                /\ ~cm.notify => ok
                /\ cm' = [cm EXCEPT
                            !.todo = Tail(@),
                            !.seen = SeenAfter(@, id, ok),
                            !.new_count = @ + 1,
                            !.sentNow = IF cm.notify
                                        THEN Append(@, [id |-> id, ok |-> ok])
                                        ELSE @]
    /\ UNCHANGED <<config, cache, pc, caller, listing, geo, geoPrev, rl, sc, fc,
                   fb, db, ev, pf, mc>>

\* lines 82-85 and 36-45: after the loop save_seen runs when a listing was
\* new
RunOnceSave ==
    /\ pc = "cm_loop"
    /\ cm.todo = <<>>
    /\ IF cm.new_count = 0 THEN cm' = cm
       ELSE \E ids \in KeptIds(cm.seen), w \in SaveOutcomes :
              /\ w # "ok" => ids = CHOOSE k \in KeptIds(cm.seen) : TRUE
              /\ cm' = [cm EXCEPT !.file = FileAfterSave(@, ids, w),
                                  !.saved = w]
    /\ pc' = "idle"
    /\ UNCHANGED <<config, cache, caller, listing, geo, geoPrev, rl, sc, fc, fb,
                   db, ev, pf, mc>>

InitEngine(configs, caches) ==
    /\ config \in configs
    /\ cache \in caches
    /\ pc = "idle"
    /\ caller = "none"
    /\ listing = [location |-> <<>>, beds |-> None, baths |-> None,
                  year_built |-> None]
    /\ geo = NoGeo
    /\ geoPrev = GeoBrief(NoGeo)
    /\ rl = NoResolve
    /\ sc = NoComps
    /\ fc = NoFetch
    /\ fb = NoInsert
    /\ db = EmptyStore
    /\ ev = NoEvaluate
    /\ cm = NoMonitor
    /\ mc = NoSession

InitWith(configs, caches) == InitEngine(configs, caches) /\ pf = NoApply

GeoConfigs ==
    {DefaultConfig,
     [DefaultConfig EXCEPT !.geocode_rate_limit_seconds = -1],
     [DefaultConfig EXCEPT !.geocode_geoapify_api_key = None],
     [DefaultConfig EXCEPT !.geocode_geoapify_api_key = Some(TxtBlank)]}

ResolveConfigs ==
    {DefaultConfig,
     [DefaultConfig EXCEPT !.geocode_fallback = FALSE],
     [DefaultConfig EXCEPT !.zip_county_table = TblUnsafe],
     [DefaultConfig EXCEPT !.properties_table = TblUnsafe]}

CompsConfigs ==
    {DefaultConfig,
     [DefaultConfig EXCEPT !.year_tolerance = -1],
     [DefaultConfig EXCEPT !.sales_table = TblUnsafe]}

\* use_sales_comps, comparison_query and comparison_table choose the branch
\* of fetch_comparison
FetchConfigs ==
    {DefaultConfig,
     [DefaultConfig EXCEPT !.comparison_table = Some(TblFbListings)],
     [DefaultConfig EXCEPT !.use_sales_comps = FALSE,
                           !.comparison_table = Some(TblFbListings),
                           !.lot_rent_table = Some(TblLotRents)],
     [DefaultConfig EXCEPT !.use_sales_comps = FALSE,
                           !.comparison_query = Some(TplByTitle)],
     [DefaultConfig EXCEPT !.use_sales_comps = FALSE,
                           !.comparison_query = Some(TplPlain)],
     [DefaultConfig EXCEPT !.use_sales_comps = FALSE,
                           !.comparison_table = Some(TblFbNewline)],
     [DefaultConfig EXCEPT !.use_sales_comps = FALSE,
                           !.comparison_table = Some(TblUnsafe)],
     [DefaultConfig EXCEPT !.use_sales_comps = FALSE],
     [DefaultConfig EXCEPT !.enabled = FALSE]}

\* with and without a history table; insert_into_fb off; an unsafe table
UpsertConfigs ==
    {DefaultConfig,
     [DefaultConfig EXCEPT !.fb_listing_history_table = Some(TblHistory)],
     [DefaultConfig EXCEPT !.insert_into_fb = FALSE],
     [DefaultConfig EXCEPT !.fb_listings_table = TblUnsafe]}

\* configurations get_mysql_config can build: no geocoding key, no lot
\* rent table, no history table
FromBlock ==
    [DefaultConfig EXCEPT !.geocode_geoapify_api_key = None]

EvalConfigs ==
    {[FromBlock EXCEPT !.comparison_table = Some(TblFbListings),
                       !.insert_into_fb = FALSE,
                       !.insert_all_evaluated = FALSE,
                       !.output_format = "short"],
     [FromBlock EXCEPT !.use_sales_comps = FALSE,
                       !.comparison_table = Some(TblFbListings),
                       !.price_column = Some(ColAskingPrice)],
     [FromBlock EXCEPT !.use_sales_comps = FALSE,
                       !.comparison_table = Some(TblFbListings),
                       !.insert_all_evaluated = FALSE,
                       !.output_format = "none"],
     [FromBlock EXCEPT !.enabled = FALSE]}

\* ai_ollama_mysql.py lines 38-62: the MySQLConfig of a mysql block, in the
\* fields that decide what evaluate and on_listing_accepted write
HistoryTableOf(m) ==
    IF IsNone(FieldFromBlock(m, "fb_listing_history_table")) THEN None
    ELSE Some(TblHistory)
ConfigOf(m) ==
    [FromBlock EXCEPT
        !.enabled = FieldFromBlock(m, "enabled"),
        !.use_sales_comps = FieldFromBlock(m, "use_sales_comps"),
        !.insert_into_fb = FieldFromBlock(m, "insert_into_fb"),
        !.insert_all_evaluated = FieldFromBlock(m, "insert_all_evaluated"),
        !.fb_listing_history_table = HistoryTableOf(m)]

\* mysql blocks that name a history table, with the insert flags set or not
AcceptBlocks ==
    {[BlockOf({"fb_listing_history_table"}) EXCEPT
         !["insert_into_fb"] = Some(i), !["insert_all_evaluated"] = Some(a)] :
        i \in BOOLEAN, a \in BOOLEAN}
    \cup {BlockOf({"fb_listing_history_table", "enabled"})}
AcceptConfigs == {ConfigOf(m) : m \in AcceptBlocks}

NextMonitor ==
    \/ RunOnceCall
    \/ RunOnceListing
    \/ RunOnceSave

NextGeo == GeocodeCall

NextSession ==
    \/ GetClientCall
    \/ CloseCall

NextPrice == ParsePriceCall

NextConfig == GetMysqlConfigCall

NextResolve ==
    \/ ResolveLocationCall
    \/ ResolveEnter
    \/ LookupZipCounty
    \/ LookupPropCounty
    \/ LookupCountyRegion
    \/ LookupPropRegion

NextComps ==
    \/ FetchSalesCompsCall
    \/ ResolveEnter
    \/ LookupZipCounty
    \/ LookupPropCounty
    \/ LookupCountyRegion
    \/ LookupPropRegion
    \/ CompsBuild
    \/ CompsQuery

NextFetch ==
    \/ FetchComparisonCall
    \/ FetchCustomQuery
    \/ FetchSalesComps
    \/ ResolveEnter
    \/ LookupZipCounty
    \/ LookupPropCounty
    \/ LookupCountyRegion
    \/ LookupPropRegion
    \/ CompsBuild
    \/ CompsQuery
    \/ FetchAfterSales
    \/ FetchBuiltin
    \/ FetchLotRent
    \/ LotRentQuery
    \/ FetchCompose

NextEvaluate ==
    \/ EvaluateCall
    \/ EvalModel
    \/ EvalInsert
    \/ EvalFetch
    \/ EvalFinish
    \/ ResolveEnter
    \/ LookupZipCounty
    \/ LookupPropCounty
    \/ LookupCountyRegion
    \/ LookupPropRegion
    \/ InsertValuesBuilt
    \/ InsertWrite
    \/ InsertCommit
    \/ InsertRollback
    \/ FetchSalesComps
    \/ CompsBuild
    \/ CompsQuery
    \/ FetchAfterSales
    \/ FetchBuiltin
    \/ FetchLotRent
    \/ FetchCompose

NextAccept ==
    \/ EvaluateCall
    \/ EvalModel
    \/ EvalInsert
    \/ EvalFetch
    \/ EvalFinish
    \/ OnListingAccepted
    \/ ResolveEnter
    \/ LookupZipCounty
    \/ LookupPropCounty
    \/ LookupCountyRegion
    \/ LookupPropRegion
    \/ InsertValuesBuilt
    \/ InsertWrite
    \/ InsertCommit
    \/ InsertRollback

NextUpsert ==
    \/ InsertCall
    \/ ResolveEnter
    \/ LookupZipCounty
    \/ LookupPropCounty
    \/ LookupCountyRegion
    \/ LookupPropRegion
    \/ InsertValuesBuilt
    \/ InsertWrite
    \/ InsertCommit
    \/ InsertHistory
    \/ InsertRollback

SpecPrice ==
    /\ InitEngine({DefaultConfig}, {EmptyCache})
    /\ pf \in {[NoApply EXCEPT !.fn = "_parse_price", !.arg = t] : t \in PriceTexts}
    /\ [][NextPrice]_vars
SpecConfig ==
    /\ InitEngine({DefaultConfig}, {EmptyCache})
    /\ pf \in {[NoApply EXCEPT !.fn = "get_mysql_config", !.arg = m] : m \in Blocks}
    /\ [][NextConfig]_vars
SpecGeo == InitWith(GeoConfigs, InitialCaches) /\ [][NextGeo]_vars
SpecResolve == InitWith(ResolveConfigs, InitialCaches) /\ [][NextResolve]_vars
SpecComps == InitWith(CompsConfigs, {EmptyCache}) /\ [][NextComps]_vars
SpecAccept == InitWith(AcceptConfigs, {EmptyCache}) /\ [][NextAccept]_vars
SpecSession == InitWith({DefaultConfig}, {EmptyCache}) /\ [][NextSession]_vars
SpecMonitor == InitWith({DefaultConfig}, {EmptyCache}) /\ [][NextMonitor]_vars
SpecEvaluate == InitWith(EvalConfigs, {EmptyCache}) /\ [][NextEvaluate]_vars
SpecFetch == InitWith(FetchConfigs, {EmptyCache}) /\ [][NextFetch]_vars
SpecUpsert == InitWith(UpsertConfigs, {EmptyCache}) /\ [][NextUpsert]_vars

\* _resolve_location is synchronous code: a call that has started goes on
\* until it returns
ResolveSteps ==
    \/ ResolveEnter
    \/ LookupZipCounty
    \/ LookupPropCounty
    \/ LookupCountyRegion
    \/ LookupPropRegion
SpecResolveLive ==
    /\ InitWith(ResolveConfigs, InitialCaches)
    /\ [][NextResolve]_vars
    /\ WF_vars(ResolveSteps)

(***************************************************************************)
(* Properties of _fetch_sales_comps (SpecComps).                           *)
(***************************************************************************)
\* the call got past line 400 and built its scopes (line 432)
CompsStarted == pc = "sc_query" \/ (sc.returned /\ ~sc.isNone)

\* the scopes whose identifier _resolve_location returned, in the fixed order
ResolvedScopes ==
    SelectSeq(<<"zip", "county", "region">>,
              LAMBDA n : \/ n = "zip" /\ IsSome(rl.zip)
                         \/ n = "county" /\ IsSome(rl.county)
                         \/ n = "region" /\ IsSome(rl.region))

\* the pass and the scope of the i-th query of a search over the scopes t
PassAt(i, t) == IF i <= Len(t) THEN 1 ELSE 2
ScopeAt(i, t) == t[((i - 1) % Len(t)) + 1]

\* the queries made so far walk the scopes in order, pass 1 then pass 2
QueriesInOrder ==
    \A i \in DOMAIN sc.queries :
        /\ i <= 2 * Len(sc.tries)
        /\ sc.queries[i].pass = PassAt(i, sc.tries)
        /\ sc.queries[i].scope = ScopeAt(i, sc.tries)

\* C1: the candidate scopes are zip, county, region in that order, holding
\* exactly the scopes whose identifier was resolved; the queries follow that
\* order; a returned result with rows names the scope of the first query of
\* its pass that returned a row (every earlier query of the search returned no
\* row), and that scope is the result's sales_scope.
C1_ScopeOrder ==
    CompsStarted =>
        /\ sc.tries = ResolvedScopes
        /\ QueriesInOrder
        /\ \A i \in DOMAIN sc.queries :
              i < Len(sc.queries) => sc.queries[i].n = 0
        /\ (sc.returned /\ sc.result.kind \in {"comps", "area"}) =>
              /\ sc.queries # <<>>
              /\ sc.queries[Len(sc.queries)].n > 0
              /\ sc.result.scope = Some(sc.queries[Len(sc.queries)].scope)
              /\ sc.result.nrows = sc.queries[Len(sc.queries)].n

\* C1 witness: with all three scopes resolved, the zip query of the strict
\* pass returns no row, the county query returns one, the result is "county"
C1_Witness ==
    /\ sc.returned
    /\ sc.tries = <<"zip", "county", "region">>
    /\ Len(sc.queries) = 2
    /\ sc.queries[1].k = "ok"
    /\ sc.result.kind = "comps"
    /\ sc.result.scope = Some("county")

\* no query of the strict pass returned a row, and the pass is over
StrictPassEmpty ==
    /\ sc.returned /\ ~sc.isNone
    /\ sc.tries # <<>>
    /\ Len(sc.queries) >= Len(sc.tries)
    /\ \A i \in 1..Len(sc.tries) : sc.queries[i].n = 0

\* the relaxed pass ran over the same scopes without attribute conditions and
\* its outcome is the result: the first scope with rows, tagged "area", or
\* the no-comparables result once every scope is used up
RelaxedPassRan ==
    /\ Len(sc.queries) > Len(sc.tries)
    /\ QueriesInOrder
    /\ \A i \in 1..Len(sc.tries) : sc.queries[i].conditions = sc.where_extra
    /\ \A i \in (Len(sc.tries) + 1)..Len(sc.queries) :
          /\ sc.queries[i].pass = 2
          /\ sc.queries[i].conditions = <<>>
          /\ i < Len(sc.queries) => sc.queries[i].n = 0
    /\ IF sc.queries[Len(sc.queries)].n > 0
       THEN sc.result = [kind |-> "area",
                         scope |-> Some(sc.queries[Len(sc.queries)].scope),
                         nrows |-> sc.queries[Len(sc.queries)].n]
       ELSE Len(sc.queries) = 2 * Len(sc.tries) /\ sc.result.kind = "nocomps"

\* a result tagged as strict comes from the strict pass, one tagged "area"
\* from the relaxed pass
TagsTellPasses ==
    (sc.returned /\ sc.result.kind \in {"comps", "area"}) =>
        (sc.result.kind = "area" <=> sc.queries[Len(sc.queries)].pass = 2)

\* C2 (amended): when at least one attribute condition is applied (beds or
\* baths extracted, or a year extracted with year_tolerance >= 0) and no query
\* of the strict pass returns a row, the same scopes are queried again in
\* order without attribute conditions; a result found this way comes from
\* pass 2, carries the scope that produced it and is tagged "area", which no
\* strict-pass result is.
C2_TwoPassFallback ==
    /\ (StrictPassEmpty /\ sc.where_extra # <<>>) => RelaxedPassRan
    /\ (StrictPassEmpty /\ sc.where_extra = <<>>) => Len(sc.queries) = Len(sc.tries)
    /\ TagsTellPasses

\* C2 witness: a year is the only attribute, the tolerance is not negative,
\* both strict queries find nothing and the relaxed county query finds a row
C2_Witness ==
    /\ StrictPassEmpty
    /\ IsNone(listing.beds) /\ IsNone(listing.baths) /\ IsSome(listing.year_built)
    /\ config.year_tolerance >= 0
    /\ sc.tries = <<"zip", "county">>
    /\ Len(sc.queries) = 4
    /\ sc.result = [kind |-> "area", scope |-> Some("county"), nrows |-> 1]

\* C2 as stated: the relaxed pass runs whenever beds, baths or a year was
\* extracted and the strict pass found nothing
C2_AsStated ==
    /\ (/\ StrictPassEmpty
        /\ (IsSome(listing.beds) \/ IsSome(listing.baths) \/ IsSome(listing.year_built)))
       => RelaxedPassRan
    /\ TagsTellPasses

\* C3: a search in which no query returned a row, the search without any
\* scope included, returns the no-comparables result: not None, nothing
\* raised, no rows, no sales_scope; and that result is returned only after
\* every query of every pass that runs was made.
C3_NoCompsResult ==
    /\ ~sc.raised
    /\ (/\ sc.returned /\ ~sc.isNone
        /\ \A i \in DOMAIN sc.queries : sc.queries[i].n = 0)
       => sc.result = [kind |-> "nocomps", scope |-> None, nrows |-> 0]
    /\ (sc.returned /\ sc.result.kind = "nocomps") =>
          /\ \A i \in DOMAIN sc.queries : sc.queries[i].n = 0
          /\ Len(sc.queries) =
                (IF sc.where_extra # <<>> THEN 2 ELSE 1) * Len(sc.tries)

\* C3 witness: three scopes, both passes run, all six queries find nothing
C3_Witness ==
    /\ sc.returned
    /\ Len(sc.tries) = 3
    /\ Len(sc.queries) = 6
    /\ sc.result.kind = "nocomps"
    /\ IsNone(sc.result.scope)

\* the number of queries a search makes when none returns a row
AllQueries == (IF sc.where_extra # <<>> THEN 2 ELSE 1) * Len(sc.tries)

\* C4: a query that raises skips only its tier: the search is not aborted and
\* raises nothing; the next tier of the pass, or the first tier of the next
\* pass, is what is queried next, and after the last tier the search returns
\* the no-comparables result.
C4_FailureSkipsTier ==
    CompsStarted =>
        /\ ~sc.raised
        /\ QueriesInOrder
        /\ \A i \in DOMAIN sc.queries :
              sc.queries[i].k = "error" =>
                  IF i < Len(sc.queries) THEN TRUE
                  ELSE IF i < AllQueries
                  THEN /\ ~sc.returned
                       /\ pc = "sc_query"
                       /\ sc.pass = PassAt(i + 1, sc.tries)
                       /\ sc.tries[sc.idx] = ScopeAt(i + 1, sc.tries)
                  ELSE sc.returned /\ sc.result.kind = "nocomps"

\* C4 witness: the zip query of the strict pass raises, the county query is
\* made and finds nothing, the zip query of the relaxed pass raises too and
\* the relaxed county query returns the result
C4_Witness ==
    /\ sc.returned
    /\ sc.tries = <<"zip", "county">>
    /\ Len(sc.queries) = 4
    /\ sc.queries[1].k = "error"
    /\ sc.queries[3].k = "error"
    /\ sc.result = [kind |-> "area", scope |-> Some("county"), nrows |-> 1]

(***************************************************************************)
(* Properties of _resolve_location (SpecResolve).                          *)
\* the place of a scope in the order zip, county, region
ScopeRank(scope) ==
    CASE scope = "zip" -> 1 [] scope = "county" -> 2 [] OTHER -> 3

\* the i-th query ran with attribute conditions and returned no row
FilteredEmpty(i) ==
    /\ sc.queries[i].conditions # <<>>
    /\ sc.queries[i].k = "ok"
    /\ sc.queries[i].n = 0

\* C29 as stated: when the filtered query at a scope returns no row, the
\* unfiltered query at that scope is made before any wider scope is queried
\* with the filters on.
C29_AsStated ==
    \A i \in DOMAIN sc.queries : \A j \in DOMAIN sc.queries :
        (/\ i < j
         /\ FilteredEmpty(i)
         /\ sc.queries[j].conditions # <<>>
         /\ ScopeRank(sc.queries[j].scope) > ScopeRank(sc.queries[i].scope))
        => \E m \in (i + 1)..(j - 1) :
              /\ sc.queries[m].scope = sc.queries[i].scope
              /\ sc.queries[m].conditions = <<>>

\* C29 amended: the search widens geography before it relaxes the filters.
\* After a filtered query at a scope the next query is the filtered query at
\* the next wider candidate scope; a query without the filters is made only
\* after every candidate scope was queried with the filters, none of them
\* returning a row, and the unfiltered queries start again at the narrowest
\* scope.
C29_WidenBeforeRelax ==
    (CompsStarted /\ sc.where_extra # <<>>) =>
        \A i \in DOMAIN sc.queries :
            /\ (i < Len(sc.tries) /\ i < Len(sc.queries))
                 => /\ sc.queries[i + 1].conditions = sc.where_extra
                    /\ sc.queries[i + 1].scope = sc.tries[i + 1]
            /\ sc.queries[i].conditions = <<>>
                 => /\ i > Len(sc.tries)
                    /\ sc.queries[i].scope = sc.tries[i - Len(sc.tries)]
                    /\ \A m \in 1..Len(sc.tries) :
                          /\ sc.queries[m].conditions = sc.where_extra
                          /\ sc.queries[m].scope = sc.tries[m]
                          /\ sc.queries[m].n = 0

\* the filtered zip query and then the filtered county query returned no row,
\* and the third query is the zip query without the filters
C29_Witness ==
    /\ sc.tries = <<"zip", "county">>
    /\ sc.where_extra # <<>>
    /\ Len(sc.queries) >= 3
    /\ FilteredEmpty(1) /\ sc.queries[1].scope = "zip"
    /\ FilteredEmpty(2) /\ sc.queries[2].scope = "county"
    /\ sc.queries[3].scope = "zip" /\ sc.queries[3].conditions = <<>>

\* C35: one _fetch_sales_comps call issues at most twice as many comparable
\* queries as there are candidate scopes, at most 6, and no scope is queried
\* twice in a pass; when no attribute condition was extracted there is no
\* relaxed pass, so every candidate scope is queried at most once.
C35_QueriesBounded ==
    /\ Len(sc.tries) <= 3
    /\ Len(sc.queries) <= 2 * Len(sc.tries)
    /\ \A i, j \in DOMAIN sc.queries :
          (sc.queries[i].pass = sc.queries[j].pass
              /\ sc.queries[i].scope = sc.queries[j].scope) => i = j
    /\ sc.where_extra = <<>> =>
          /\ Len(sc.queries) <= Len(sc.tries)
          /\ \A i \in DOMAIN sc.queries : sc.queries[i].pass = 1

\* no attribute was extracted, the three scopes were each queried once and
\* returned no row, and the call has returned
C35_Witness ==
    /\ sc.returned
    /\ sc.where_extra = <<>>
    /\ Len(sc.tries) = 3
    /\ Len(sc.queries) = 3
    /\ \A i \in DOMAIN sc.queries : sc.queries[i].k = "ok" /\ sc.queries[i].n = 0

(***************************************************************************)
\* lines 312-334 of the current call are done
Entered == caller = "resolve" /\ pc # "rl_enter"

\* C5: when the location text holds a five-digit zip, _resolve_location
\* returns that zip and the geocoder is not called: no cache read, no HTTP
\* request, no sleep.
C5_RegexShortCircuits ==
    (Entered /\ IsSome(LocTable[listing.location].regex)) =>
        /\ rl.zip = LocTable[listing.location].regex
        /\ rl.geoCalls = 0
        /\ ~geo.called
        /\ geo.events = <<>>
        /\ geo.slept = <<>>

\* C5 witness: "16509, Erie, PA" holds a zip and parses to a city and a state
\* with the geocode fallback on; the call returned 16509 without the geocoder
C5_Witness ==
    /\ rl.returned
    /\ caller = "resolve"
    /\ listing.location = LocZipCityState
    /\ config.geocode_fallback
    /\ IsSome(LocTable[listing.location].parts.city)
    /\ rl.zip = Some(Zip16509)
    /\ rl.geoCalls = 0

\* C6: whatever the store holds or raises, a returned triple has a county
\* only with a zip and a region only with a county.
C6_Hierarchy ==
    rl.returned =>
        /\ IsSome(rl.county) => IsSome(rl.zip)
        /\ IsSome(rl.region) => IsSome(rl.county)

\* C6 witness: the zip_county lookup raises and the properties fallback finds
\* no row: the call returns the zip alone, the counties table is never read
C6_Witness ==
    /\ rl.returned
    /\ IsSome(rl.zip)
    /\ Len(rl.lookups) = 2
    /\ rl.lookups[1] = [step |-> "zip_county", k |-> "error"]
    /\ rl.lookups[2] = [step |-> "prop_county", k |-> "norow"]
    /\ IsNone(rl.county) /\ IsNone(rl.region)

(***************************************************************************)
(* Properties of _geocode_city_state_to_zip (SpecGeo).                     *)
(***************************************************************************)
\* the call wrote to the cache: cache.set of line 281 ran and did not raise
CacheWritten ==
    geo.called /\ "cache_set" \in EventSet(geo.events) /\ ~geo.setFailed

\* result i of the response carries a valid postal code and none before it does
FirstValidAt(i) ==
    /\ ValidPostcode(Postcode(geo.results[i]))
    /\ \A j \in 1..(i - 1) : ~ValidPostcode(Postcode(geo.results[j]))

\* C36: the geocoder changes the cache only by cache.set, and every value it
\* writes is a text of exactly 5 digits, the first 5 characters of the postal
\* code of the first result that carries a valid one; it is written under
\* ("geocode_zip", normalized lowercase query), no other key changes, and the
\* call returns the value written.
C36_CacheWrites ==
    /\ (geo.called /\ geo.cache # geo.before) => CacheWritten
    /\ CacheWritten =>
          /\ IsSome(geo.cache[geo.key])
          /\ Len(Val(geo.cache[geo.key])) = 5
          /\ AllDigits(Val(geo.cache[geo.key]), 1, 5)
          /\ \E i \in DOMAIN geo.results :
                /\ FirstValidAt(i)
                /\ Val(geo.cache[geo.key]) = SubSeq(Postcode(geo.results[i]), 1, 5)
          /\ geo.key = <<"geocode_zip", Normalize(GeocodeQuery(geo.city, geo.state))>>
          /\ geo.key[2] = ToLower(geo.key[2])
          /\ \A k \in CacheKeys \ {geo.key} : geo.cache[k] = geo.before[k]
          /\ geo.ret = geo.cache[geo.key]

\* C36 witness: the call for ("Erie", "PA") missed the cache; the response
\* carries a result with no postal code worth the name, then 16509-1234, then
\* 16428; 16509 was written under "erie,pa,usa" and returned
C36_Witness ==
    /\ CacheWritten
    /\ geo.city = TxtErie /\ geo.state = TxtPA
    /\ IsNone(geo.before[geo.key])
    /\ geo.results = <<Some(TxtBadPostcode), Some(Zip16509Plus4), Some(Zip16428)>>
    /\ geo.cache[geo.key] = Some(<<"1", "6", "5", "0", "9">>)
    /\ geo.ret = Some(<<"1", "6", "5", "0", "9">>)

\* no API key is configured: the option is absent, empty or blank (line 243)
NoApiKey == Strip(ApiKey(config)) = <<>>

\* the call got no answer from the cache: the key is absent or the read raised
CacheMissed ==
    geo.called /\ geo.events # <<>> /\ (IsNone(geo.held) \/ geo.getFailed)

\* C37: with no API key configured, a call that misses the cache returns None
\* and issues no HTTP request, does not sleep and writes nothing to the cache;
\* a call sleeps only when it went on to the network attempt, that is with an
\* API key, after missing the cache.
C37_NoKeyNoRequest ==
    geo.called =>
        /\ (NoApiKey /\ CacheMissed) =>
              /\ IsNone(geo.ret)
              /\ geo.events = <<"cache_get">>
              /\ geo.slept = <<>>
              /\ geo.cache = geo.before
              /\ ~geo.raised
        /\ (geo.slept # <<>> \/ "sleep" \in EventSet(geo.events)) =>
              ~NoApiKey /\ CacheMissed

\* C37 witness: the configuration has no API key and the cache holds nothing
\* for "erie,pa,usa"; the call returned None after the cache read alone
C37_Witness ==
    /\ geo.called
    /\ IsNone(config.geocode_geoapify_api_key)
    /\ geo.city = ToLower(TxtErie) /\ geo.state = TxtPA
    /\ IsNone(geo.held) /\ ~geo.getFailed
    /\ geo.events = <<"cache_get">>
    /\ geo.slept = <<>>
    /\ IsNone(geo.ret)
    /\ geo.cache = geo.before

\* C7 as stated, for calls that meet no cache fault: of two consecutive calls
\* with the same arguments at most one issues an HTTP request, and the second
\* returns what the first returned.
C7_AsStated ==
    (/\ geo.called /\ geoPrev.called
     /\ geo.city = geoPrev.city /\ geo.state = geoPrev.state
     /\ ~geoPrev.cacheFault /\ ~geo.getFailed /\ ~geo.setFailed)
    => /\ ~(geoPrev.http /\ "http" \in EventSet(geo.events))
       /\ geo.ret = geoPrev.ret

\* the cache was read for the query of the call (lines 236-237 were reached)
CacheRead == geo.called /\ geo.events # <<>>

\* what a cache hit does: the cached zip, or None for the marker, is returned;
\* no HTTP request, no sleep, the cache untouched
ShortCircuited ==
    /\ geo.events = <<"cache_get">>
    /\ geo.slept = <<>>
    /\ geo.ret = (IF Val(geo.held) = NoResultMarker THEN None ELSE geo.held)
    /\ geo.cache = geo.before
    /\ ~geo.raised

\* C8 (amended): the cache read comes before any HTTP request, and when the
\* read succeeds and finds an entry for the normalized query, a zip or the
\* no-result marker, the call returns the cached answer (None for the marker)
\* without an HTTP request and without sleeping.
C8_CacheShortCircuits ==
    CacheRead =>
        /\ geo.events[1] = "cache_get"
        /\ geo.key = <<"geocode_zip", Normalize(GeocodeQuery(geo.city, geo.state))>>
        /\ (IsSome(geo.held) /\ ~geo.getFailed) => ShortCircuited

\* C8 witness: the cache holds the no-result marker for "erie,pa,usa"; the
\* call for ("erie", "PA") returns None after the cache read alone
C8_Witness ==
    /\ geo.called
    /\ geo.city = ToLower(TxtErie) /\ geo.state = TxtPA
    /\ geo.held = Some(NoResultMarker)
    /\ ~geo.getFailed
    /\ geo.events = <<"cache_get">>
    /\ IsNone(geo.ret)

\* C8 as stated: whenever the cache holds an entry for the query the call
\* short-circuits
C8_AsStated == (CacheRead /\ IsSome(geo.held)) => ShortCircuited

\* the events of the call, as a bag of names
Count(events, name) == Cardinality({i \in DOMAIN events : events[i] = name})

\* C9: a call that issues an HTTP request sleeps exactly once, for
\* max(0, geocode_rate_limit_seconds), after the request and as the last thing
\* before it returns, whatever came of the request.
C9_SleepAfterRequest ==
    (geo.called /\ "http" \in EventSet(geo.events)) =>
        /\ Count(geo.events, "http") = 1
        /\ Count(geo.events, "sleep") = 1
        /\ geo.events[Len(geo.events)] = "sleep"
        /\ geo.slept =
              <<IF config.geocode_rate_limit_seconds > 0
                THEN config.geocode_rate_limit_seconds ELSE 0>>
        /\ ~geo.raised

\* C9 witness: with a rate limit of -1 the response is no JSON; the call
\* sleeps 0 seconds once and returns None
C9_Witness ==
    /\ geo.called
    /\ config.geocode_rate_limit_seconds < 0
    /\ geo.httpKind = "json_error"
    /\ geo.events = <<"cache_get", "http", "sleep">>
    /\ geo.slept = <<0>>
    /\ IsNone(geo.ret)

\* the request, the status check or the parsing of the response raised
RequestFailed == geo.httpKind \in {"network_error", "status_error", "json_error"}

\* C10 (amended): no call raises.  A network, HTTP-status or JSON error makes
\* the call return None and leaves the cache as it was.  A cache error is
\* absorbed too, but the call goes on: after a failed read the live lookup
\* runs as on a miss, and after a failed write the zip found is still
\* returned, the cache left as it was.
C10_ErrorsAbsorbed ==
    geo.called =>
        /\ ~geo.raised
        /\ RequestFailed => IsNone(geo.ret) /\ geo.cache = geo.before
        /\ geo.setFailed => IsSome(geo.ret) /\ geo.cache = geo.before
        /\ (geo.getFailed /\ Strip(ApiKey(config)) # <<>>) =>
              Count(geo.events, "sleep") = 1

\* C10 witness: requests.get raises after a cache miss; None is returned and
\* the cache holds what it held
C10_Witness ==
    /\ geo.called
    /\ geo.httpKind = "network_error"
    /\ geo.events = <<"cache_get", "http", "sleep">>
    /\ IsNone(geo.ret)
    /\ geo.cache = geo.before
    /\ ~geo.raised

\* C10 as stated: after any network, HTTP-status, JSON or cache error the
\* call returns None, raises nothing and writes no zip
C10_AsStated ==
    (geo.called /\ (RequestFailed \/ geo.getFailed \/ geo.setFailed)) =>
        /\ IsNone(geo.ret)
        /\ ~geo.raised
        /\ geo.cache = geo.before

\* C18: _resolve_location calls the geocoder only when the location text
\* holds no zip, both a city and a state were parsed from it, and
\* geocode_fallback is on.
C18_AsStated ==
    (Entered /\ rl.geoCalls > 0) =>
        /\ IsNone(LocTable[listing.location].regex)
        /\ IsSome(LocTable[listing.location].parts.city)
        /\ IsSome(LocTable[listing.location].parts.state)
        /\ config.geocode_fallback

\* C19: when neither the regex nor the geocoder yields a zip and sales comps
\* are on, a location that parsed to a city and a state is looked up in the
\* property store before _resolve_location gives up.
C19_AsStated ==
    (/\ rl.returned
     /\ config.use_sales_comps
     /\ IsNone(rl.zip)
     /\ IsSome(LocTable[listing.location].parts.city)
     /\ IsSome(LocTable[listing.location].parts.state))
        => rl.lookups # <<>>

\* the lookup steps made so far, and those that read a row
StepsMade == {rl.lookups[i].step : i \in DOMAIN rl.lookups}
StepsWithRow ==
    {rl.lookups[i].step : i \in {j \in DOMAIN rl.lookups : rl.lookups[j].k = "row"}}

\* C20: when a zip was resolved and the zip-to-county lookup yields no county
\* (no row, a failure, or a lookup that cannot be made) the property-row
\* fallback for county_id is attempted; when a county was resolved and the
\* counties lookup yields no region the property-row fallback for region_id is
\* attempted.
C20_AsStated ==
    (rl.returned /\ IsSome(rl.zip) /\ SafeTable(config.properties_table)) =>
        /\ "zip_county" \notin StepsWithRow => "prop_county" \in StepsMade
        /\ (IsSome(rl.county) /\ "county_region" \notin StepsWithRow)
              => "prop_region" \in StepsMade

\* the text holds no digit
NoDigits(text) == \A i \in DOMAIN text : text[i] \notin Digit

\* no digit and no city or state token in the location of the call
NoTokens ==
    /\ NoDigits(listing.location)
    /\ IsNone(LocTable[listing.location].parts.city)
    /\ IsNone(LocTable[listing.location].parts.state)

\* C22: for a location with no digits and no recognizable city or state
\* token, the empty location included, _resolve_location returns
\* (None, None, None), with no geocoder call and no lookup in the store.
C22_NoTokensNoResult ==
    (Entered /\ NoTokens) =>
        /\ rl.returned
        /\ IsNone(rl.zip) /\ IsNone(rl.county) /\ IsNone(rl.region)
        /\ rl.geoCalls = 0
        /\ rl.lookups = <<>>

\* "Erie, Penn": two parts, the last one no two-letter state
C22_Witness ==
    /\ Entered
    /\ listing.location = LocNoState
    /\ config.geocode_fallback
    /\ rl.returned
    /\ IsNone(rl.zip)

(***************************************************************************)
(* Properties of fetch_comparison (SpecFetch).                             *)
(***************************************************************************)
\* the call was made with something to do: it passed lines 518-521
FetchAttempted == fc.returned /\ ~FetchDisabled(config)

\* C11: fetch_comparison never raises, whatever the store does (connection
\* failure, failure to create a cursor, failing queries, price fields that
\* are not numbers, prices whose mean is zero): it returns a result or None,
\* and after a connection failure it returns None with no statement executed.
C11_AsStated ==
    /\ ~fc.raised
    /\ (FetchAttempted /\ ~fc.connected) => (fc.isNone /\ fc.statements = <<>>)

\* the allow-list of the spec: a name of letters, digits and underscores only
AllowListed(name) ==
    /\ name # <<>>
    /\ \A i \in DOMAIN name : name[i] \in Digit \cup Alpha \cup {"_"}

\* C16: no statement executed against the store holds a table or column name
\* of the configuration that fails the allow-list of letters, digits and
\* underscores; a feature whose table name fails it executes no statement.
C16_AsStated ==
    \A i \in DOMAIN fc.statements :
        \A j \in DOMAIN fc.statements[i].names :
            AllowListed(fc.statements[i].names[j])

\* the values of the listing that the engine sends to the store
ListingTexts == {fc.title, fc.price, listing.location} \ {<<>>}

\* C17: in every statement fetch_comparison executes, the values derived from
\* the listing (title, price, location) are bound parameters and no part of
\* the statement's text.
C17_AsStated ==
    \A i \in DOMAIN fc.statements :
        \A t \in ListingTexts : ~Contains(t, fc.statements[i].text)

(***************************************************************************)
(* Properties of insert_fb_listing (SpecUpsert).                           *)
(***************************************************************************)
\* C12: insert_fb_listing never raises, whatever the store does (connection
\* failure, failure to create a cursor, failing location lookups, failing
\* writes, failing commit or rollback): a call that has ended ended with the
\* boolean True or False.
C12_AsStated == fb.returned => ~fb.raised

\* the calls made so far have ended, each of them with True
AllCallsSucceeded == pc = "idle" /\ db.failed = 0 /\ db.calls = Len(db.log)

\* the successful calls for an identifier, oldest first
CallsFor(id) == SelectSeq(db.log, LAMBDA c : c.id = id)

\* the committed rows of an identifier
RowsFor(id) == SelectSeq(db.listings, LAMBDA r : r.id = id)

\* the row is what the calls cs leave: the derived columns of the latest call,
\* the first-seen timestamp of the first
RowReflects(row, cs) ==
    /\ row.derived = cs[Len(cs)].derived
    /\ row.posted_date = IF cs[1].posted THEN Some(cs[1].now) ELSE None

\* C13: after any sequence of successful insert_fb_listing calls the listings
\* table holds exactly one row for every external identifier written and none
\* for the others; the row carries the derived fields of the most recent call
\* for its identifier, and the identifier and posted_date of the first.
C13_IdempotentUpsert ==
    AllCallsSucceeded =>
        \A id \in ExtIds :
            /\ Len(RowsFor(id)) = IF CallsFor(id) = <<>> THEN 0 ELSE 1
            /\ CallsFor(id) # <<>> => RowReflects(RowsFor(id)[1], CallsFor(id))

\* two successful calls for one identifier with different titles and prices,
\* the first of them having set posted_date
C13_Witness ==
    /\ AllCallsSucceeded
    /\ Len(db.log) = 2
    /\ db.log[1].id = db.log[2].id
    /\ db.log[1].derived.title # db.log[2].derived.title
    /\ db.log[1].derived.asking_price # db.log[2].derived.asking_price
    /\ db.log[1].posted
    /\ Len(db.listings) = 1
    /\ db.listings[1].posted_date = Some(1)
    /\ db.listings[1].derived.title = db.log[2].derived.title

\* the history insert was tried and it, or its commit, failed
HistoryFailed ==
    fb.historyTried /\ fb.returned /\ fb.commits # <<"ok", "ok">>

\* the row the call wrote is among the committed rows
UpsertPersisted ==
    \E i \in DOMAIN db.listings :
        /\ db.listings[i].id = fb.id
        /\ db.listings[i].derived = Derived(Val(fb.values))

\* C14: a failure of the price-history append never rolls back or fails the
\* upsert: the history insert is tried only after the upsert was committed,
\* and when it fails insert_fb_listing still returns True and the upserted row
\* stays committed.
C14_HistoryIndependent ==
    /\ (pc = "fb_history" \/ fb.historyTried) =>
            (fb.commits[1] = "ok" /\ UpsertPersisted)
    /\ HistoryFailed => (fb.ret /\ ~fb.raised /\ UpsertPersisted)

\* a history commit failed and the rollback that followed failed too
C14_Witness ==
    /\ HistoryFailed
    /\ fb.commits = <<"ok", "fail">>
    /\ fb.rollbacks = <<"fail">>
    /\ fb.ret
    /\ UpsertPersisted

\* the history rows stamped with the NOW() of the current call, committed or
\* in the open transaction
HistoryRowsOfCall ==
    {r \in EventSet(db.history) \cup EventSet(db.work.history) :
        r.recorded_at = db.calls}

\* the upsert of the current call was executed and committed: a variant
\* succeeded and the commit that followed it did
UpsertCommitted ==
    /\ fb.writes # <<>>
    /\ fb.writes[Len(fb.writes)].o = "ok"
    /\ fb.commits # <<>>
    /\ fb.commits[1] = "ok"

\* C38: the price-history insert is reached or tried only after the upsert
\* was executed and committed, and only with a history table configured whose
\* name passes the allow-list and with a price that parsed to a number; a call
\* whose upsert failed returns False without trying the history insert and
\* leaves no history row of its own.
C38_HistoryOnlyAfterUpsert ==
    /\ (pc = "fb_history" \/ fb.historyTried) =>
          /\ UpsertCommitted
          /\ IsSome(config.fb_listing_history_table)
          /\ Val(config.fb_listing_history_table) # <<>>
          /\ SafeTable(Val(config.fb_listing_history_table))
          /\ IsSome(_parse_price(fb.price))
    /\ (fb.returned /\ ~UpsertCommitted) =>
          /\ ~fb.historyTried
          /\ ~fb.ret
          /\ HistoryRowsOfCall = {}
    /\ HistoryRowsOfCall # {} => fb.historyTried

\* C38 witness: with a history table configured, the upsert of a listing
\* priced 180 was committed, then the history row was inserted and committed,
\* and the call returned True
C38_Witness ==
    /\ fb.returned /\ fb.ret
    /\ fb.historyTried
    /\ fb.commits = <<"ok", "ok">>
    /\ fb.price = TxtPrice180
    /\ \E i \in DOMAIN db.history :
          db.history[i] = [id |-> fb.id, asking_price |-> _parse_price(fb.price),
                           recorded_at |-> db.calls]

\* the outcome of the last write tried
LastWrite == fb.writes[Len(fb.writes)].o

\* the call gave up: nothing of it is committed, one rollback was tried and
\* False returned
GaveUp ==
    /\ ~fb.ret
    /\ ~fb.raised
    /\ db.listings = fb.before
    /\ Len(fb.rollbacks) = 1

\* C15 as stated: whenever a write fails the next variant is tried, so that a
\* call gives up on the writes only after all four variants; a variant that
\* succeeds is followed by one commit; a call that gave up has committed
\* nothing, has rolled back and returns False.
C15_AsStated ==
    (fb.returned /\ fb.writes # <<>>) =>
        /\ LastWrite # "ok" => Len(fb.writes) = Len(InsertVariants)
        /\ LastWrite = "ok" => Len(fb.commits) = 1
        /\ ~fb.ret => (GaveUp /\ fb.rollbacks = <<"ok">>)

\* C15 (amended): the variants are tried in the fixed order, the next one only
\* after a failure whose message names an unknown column, posted_date or
\* updated_at; the first success ends the writes and is followed by one commit
\* of the upsert (a second commit belongs to the history row); after any other
\* write error, after four failures or after a failed commit the call has
\* committed nothing, has tried one rollback and returns False.
C15_RetryOnColumnErrors ==
    /\ Len(fb.writes) <= Len(InsertVariants)
    /\ \A i \in DOMAIN fb.writes :
          /\ fb.writes[i].variant = InsertVariants[i]
          /\ i < Len(fb.writes) => fb.writes[i].o = "column_error"
    /\ (fb.returned /\ fb.writes # <<>>) =>
          /\ LastWrite = "column_error" => Len(fb.writes) = Len(InsertVariants)
          /\ LastWrite # "ok" => (fb.commits = <<>> /\ GaveUp)
          /\ LastWrite = "ok" =>
                /\ fb.commits # <<>>
                /\ Len(fb.commits) <= IF fb.historyTried THEN 2 ELSE 1
                /\ fb.ret = (fb.commits[1] = "ok")
                /\ fb.commits[1] = "fail" => GaveUp

\* the third variant succeeded after two column errors and was committed
C15_Witness ==
    /\ fb.returned
    /\ Len(fb.writes) = 3
    /\ LastWrite = "ok"
    /\ fb.writes[3].variant = [posted |-> FALSE, updated |-> TRUE]
    /\ fb.commits = <<"ok">>
    /\ fb.ret

(***************************************************************************)
(* Properties of _resolve_location under fairness (SpecResolveLive).       *)
(***************************************************************************)
\* the i-th lookup found no value: no row, or the step failed
NotFoundAt(i) == rl.lookups[i].k # "row"

\* the lookup made after the i-th is the step next, or is about to be made
FollowedBy(i, next, at) ==
    IF i < Len(rl.lookups) THEN rl.lookups[i + 1].step = next ELSE pc = at

\* a county step, a region step read a row
CountyFound ==
    \E i \in DOMAIN rl.lookups :
        rl.lookups[i].step \in {"zip_county", "prop_county"} /\ rl.lookups[i].k = "row"
RegionFound ==
    \E i \in DOMAIN rl.lookups :
        rl.lookups[i].step \in {"county_region", "prop_region"}
            /\ rl.lookups[i].k = "row"

\* a failing step counts as "not found" for that step only: the fallback of
\* the step runs as after an empty answer, and the triple returned holds what
\* the other steps found
StepErrorsAbsorbed ==
    (caller = "resolve" /\ pc # "rl_enter") =>
        /\ ~rl.raised
        /\ \A i \in DOMAIN rl.lookups :
              (NotFoundAt(i) /\ SafeTable(config.properties_table)) =>
                  /\ rl.lookups[i].step = "zip_county"
                        => FollowedBy(i, "prop_county", "rl_prop_county")
                  /\ rl.lookups[i].step = "county_region"
                        => FollowedBy(i, "prop_region", "rl_prop_region")
        /\ rl.returned =>
              /\ IsSome(rl.county) = CountyFound
              /\ IsSome(rl.region) = RegionFound

\* C21: _resolve_location never raises: a step that fails (table absent,
\* query error, malformed value) is "not found" for that step only, the
\* remaining steps of the chain still run, and every call returns a triple.
C21_ResolveNeverRaises ==
    /\ []StepErrorsAbsorbed
    /\ (caller = "resolve" /\ pc = "rl_enter") ~> (rl.returned /\ ~rl.raised)

\* both mapping lookups failed, both property fallbacks read a row, and the
\* full triple was returned
C21_Witness ==
    /\ caller = "resolve"
    /\ rl.returned
    /\ Len(rl.lookups) = 4
    /\ rl.lookups[1] = [step |-> "zip_county", k |-> "error"]
    /\ rl.lookups[2] = [step |-> "prop_county", k |-> "row"]
    /\ rl.lookups[3] = [step |-> "county_region", k |-> "error"]
    /\ rl.lookups[4] = [step |-> "prop_region", k |-> "row"]
    /\ IsSome(rl.zip) /\ IsSome(rl.county) /\ IsSome(rl.region)

(***************************************************************************)
(* Properties of the price line of fetch_comparison (SpecFetch).           *)
(***************************************************************************)
\* the call returned a result with its price line
Composed == fc.returned /\ ~fc.isNone /\ ~fc.raised

\* the number the listing price parses to
ListingPrice == NumberOf(Val(_parse_price(fc.price)))

\* the sentence of a source is computed from these usable prices
Compared(prices) ==
    /\ Composed
    /\ IsSome(_parse_price(fc.price))
    /\ Usable(prices) # <<>>

\* n is x = num / den rounded to the nearest integer, a tie to the even one
Nearest(n, num, den) ==
    /\ 2 * Abs(num - n * den) <= den
    /\ (2 * Abs(num - n * den) = den) => n % 2 = 0

TxtAverage == <<" ","a","v","e","r","a","g","e">>

\* the price line reads "<prefix><n>% <word> average" for n the rounded
\* absolute percentage of lp against the mean of the prices
Reports(prefix, lp, prices, word) ==
    \E n \in 0..999 :
        /\ Nearest(n, Abs(lp * Len(prices) - SumOf(prices)) * 100,
                   Abs(SumOf(prices)))
        /\ Contains(prefix \o Decimal(n) \o TxtPercent \o word \o TxtAverage,
                    fc.concise)

\* the direction word of the claim: "below" exactly when the listing price is
\* less than the mean
WordByMean(lp, prices) ==
    IF lp * Len(prices) < SumOf(prices) THEN TxtBelow ELSE TxtAbove

\* the direction word by the sign of (lp - mean) / mean
WordBySign(lp, prices) ==
    IF (lp * Len(prices) - SumOf(prices)) * SumOf(prices) < 0
    THEN TxtBelow ELSE TxtAbove

\* C23 as stated: for each source with usable prices the sentence reports the
\* rounded absolute percentage of the listing price against the mean of the
\* prices, with "below" exactly when the listing price is less than the mean
\* and "above" otherwise.
C23_AsStated ==
    /\ Compared(fc.salesPrices)
         => Reports(TxtVsZillow, ListingPrice, Usable(fc.salesPrices),
                    WordByMean(ListingPrice, Usable(fc.salesPrices)))
    /\ Compared(fc.fbPrices)
         => Reports(TxtVsFacebook, ListingPrice, Usable(fc.fbPrices),
                    WordByMean(ListingPrice, Usable(fc.fbPrices)))

\* C23 amended: the sentence reports the rounded absolute percentage, with
\* "below" exactly when the signed percentage (listing price - mean) / mean
\* is negative; that is "listing price less than the mean" when the mean is
\* positive.
C23_DeltaSign ==
    /\ Compared(fc.salesPrices)
         => Reports(TxtVsZillow, ListingPrice, Usable(fc.salesPrices),
                    WordBySign(ListingPrice, Usable(fc.salesPrices)))
    /\ Compared(fc.fbPrices)
         => Reports(TxtVsFacebook, ListingPrice, Usable(fc.fbPrices),
                    WordBySign(ListingPrice, Usable(fc.fbPrices)))

\* a listing of 180 against two comparable rows of mean 216 reads "17% below"
C23_Witness ==
    /\ Compared(fc.fbPrices)
    /\ Len(Usable(fc.fbPrices)) = 2
    /\ ListingPrice = 180
    /\ SumOf(fc.fbPrices) = 432
    /\ Contains(<<"1","7","%"," ","b","e","l","o","w">>, fc.concise)

\* text begins with prefix / ends with suffix
StartsWith(text, prefix) ==
    Len(text) >= Len(prefix) /\ SubSeq(text, 1, Len(prefix)) = prefix
EndsWith(text, suffix) ==
    /\ Len(text) >= Len(suffix)
    /\ SubSeq(text, Len(text) - Len(suffix) + 1, Len(text)) = suffix

TxtZillowName == <<"V","s"," ","Z","i","l","l","o","w">>
TxtFacebookName == <<"V","s"," ","F","a","c","e","b","o","o","k">>

\* the line is made of sentences that begin at its first character and after
\* each ". ", with one space and nothing else between two sentences
SingleSpaced(line) ==
    /\ line # <<>> => (line[1] = "V" /\ line[Len(line)] = ".")
    /\ \A i \in 1..(Len(line) - 1) :
         /\ line[i] = "." => (line[i + 1] = " " /\ i + 2 <= Len(line)
                               /\ line[i + 2] = "V")
         /\ (line[i] = "V" /\ i > 1) => (line[i - 1] = " " /\ line[i - 2] = ".")

\* C24: the price line has a sentence for a source only if the source is
\* configured (no "Vs Zillow" with use_sales_comps off, no "Vs Facebook"
\* with no comparison_table); a configured source with no usable price reads
\* "no comps" / "no data"; the sentences are joined by a single space.
C24_SentencesOnlyWhenConfigured ==
    Composed =>
        /\ ~config.use_sales_comps => ~Contains(TxtZillowName, fc.concise)
        /\ ~Truthy(config.comparison_table)
             => ~Contains(TxtFacebookName, fc.concise)
        /\ (config.use_sales_comps /\ Usable(fc.salesPrices) = <<>>)
             => StartsWith(fc.concise, TxtZillowNoComps)
        /\ (Truthy(config.comparison_table) /\ Usable(fc.fbPrices) = <<>>)
             => EndsWith(fc.concise, TxtFacebookNoData)
        /\ SingleSpaced(fc.concise)
        /\ (config.use_sales_comps /\ Truthy(config.comparison_table))
             => Contains(<<".", " ">> \o TxtFacebookName, fc.concise)

\* with sales comps off and a comparison table whose rows carry no price,
\* the line is the Facebook "no data" sentence alone
C24_Witness ==
    /\ Composed
    /\ ~config.use_sales_comps
    /\ fc.fbRows > 0
    /\ Usable(fc.fbPrices) = <<>>
    /\ fc.concise = TxtFacebookNoData

(***************************************************************************)
(* Properties of the lot-rent line of fetch_comparison (SpecFetch).        *)
(***************************************************************************)
\* the statements of the lot-rent lookup among those executed
LotRentExecuted ==
    {i \in DOMAIN fc.statements : fc.statements[i].feature = "lot_rent"}

\* C25: when _lot_rent_in_listing(listing) is true, fetch_comparison makes no
\* lot-rent lookup, executes no lot-rent query, and its average_lot_rent_line
\* is empty.
C25_NoAverageWhenRentStated ==
    _lot_rent_in_listing(fc.title, fc.description)
        => /\ caller # "lot_rent"
           /\ LotRentExecuted = {}
           /\ IsNone(fc.lot)

\* a result is returned for a listing that reads "Lot Rent: $400", with a
\* lot-rent table configured
C25_Witness ==
    /\ Composed
    /\ LotRentWantedAnyListing(config, fc)
    /\ fc.description = TxtDescRent
    /\ _lot_rent_in_listing(fc.title, fc.description)
    /\ IsNone(fc.lot)

\* what _lot_rent_in_listing makes of the descriptions of the model
LotRentInListingCases ==
    /\ ~_lot_rent_in_listing(TxtTitleHome, <<>>)
    /\ _lot_rent_in_listing(TxtTitleHome, TxtDescRent)
    /\ ~_lot_rent_in_listing(TxtTitleHome, TxtDescIncluded)
    /\ _lot_rent_in_listing(TxtTitleHome, TxtDescPerMonth)
    /\ ~_lot_rent_in_listing(TxtTitleHome, TxtDescPrice)

(***************************************************************************)
(* Properties of _parse_price (SpecPrice).                                 *)
(***************************************************************************)
\* t[i..j] matches [\d,]+(?:\.\d+)? : a run of digits and commas, then
\* possibly a point and digits
IsNumberToken(t, i, j) ==
    \E k \in i..j :
        /\ \A m \in i..k : t[m] \in Digit \cup {","}
        /\ \/ k = j
           \/ /\ k + 2 <= j
              /\ t[k + 1] = "."
              /\ \A m \in (k + 2)..j : t[m] \in Digit

\* the tokens of t that hold a digit
NumberTokens(t) ==
    {ij \in (DOMAIN t) \X (DOMAIN t) :
        /\ ij[1] <= ij[2]
        /\ IsNumberToken(t, ij[1], ij[2])
        /\ \E m \in ij[1]..ij[2] : t[m] \in Digit}

\* ij is the leftmost token, and the longest of those that start there
IsFirstToken(t, ij) ==
    \A ab \in NumberTokens(t) :
        ij[1] < ab[1] \/ (ij[1] = ab[1] /\ ij[2] >= ab[2])

\* C27: _parse_price returns the first number found in the text, its commas
\* removed (so "$30,000 - $32,000" gives 30000), returns None for the empty
\* text, for "**unspecified**" and for a text without a number, and raises
\* for no text: whatever it returns is None or a number float() accepts.
C27_FirstNumberFound ==
    pf.done =>
        /\ pf.arg \in {<<>>, TxtUnspecified} => IsNone(pf.out)
        /\ IsNone(pf.out) <=> NumberTokens(pf.arg) = {}
        /\ IsSome(pf.out) =>
             /\ FloatAccepts(Val(pf.out))
             /\ \E ij \in NumberTokens(pf.arg) :
                  /\ IsFirstToken(pf.arg, ij)
                  /\ Val(pf.out) = DropCommas(SubSeq(pf.arg, ij[1], ij[2]))
        /\ pf.arg = TxtPriceRange => NumberOf(Val(pf.out)) = 30000

\* the range "$30,000 - $32,000" has been parsed to its low end
C27_Witness ==
    /\ pf.done
    /\ pf.arg = TxtPriceRange
    /\ pf.out = Some(<<"3","0","0","0","0">>)

(***************************************************************************)
(* Properties of get_mysql_config (SpecConfig).                            *)
(***************************************************************************)
\* C30 as stated: every option set in the mysql block is carried unchanged
\* into the MySQLConfig, and an option left unset takes the default that
\* MySQLConfig declares.
C30_AsStated ==
    (pf.done /\ IsSome(pf.out)) =>
        \A n \in OptionNames :
            Val(pf.out)[n] = IF IsNone(pf.arg[n]) THEN MySQLConfigDefaults[n]
                             ELSE Val(pf.arg[n])

EvaluatedWithComparison ==
    /\ ev.returned /\ ~ev.raised
    /\ ev.comment # TxtNotEvaluated
    /\ fc.returned /\ ~fc.isNone /\ ~fc.raised
C28_AsStated ==
    EvaluatedWithComparison =>
        /\ (config.output_format \in {"full", "short"} /\ fc.concise # <<>>)
               => Contains(fc.concise, ev.out)
        /\ config.output_format = "none"
               => ev.out = ev.comment \o UrlText(ev.post_url)
        /\ config.output_format = "short"
               => Len(ev.out) <= Len(ev.comment) + Len(TxtDbSeparator)
                                   + ShortLength + Len(UrlText(ev.post_url))

(***************************************************************************)
(* Properties of evaluate followed by on_listing_accepted (SpecAccept).    *)
(***************************************************************************)
\* the history rows of the listing, in the open transaction and committed
HistoryRowsOf(rows, id) == Len(SelectSeq(rows, LAMBDA r : r.id = id))

BothCompared == ev.returned /\ ~ev.raised /\ ~MysqlAbsent(config)
C32_AsStated ==
    BothCompared =>
        /\ ev.promptStore = ev.commentStore
        /\ IsNone(ev.promptOwn)
        /\ IsNone(fc.own)

(***************************************************************************)
(* Properties of the Craigslist monitor (SpecMonitor).                     *)
(***************************************************************************)
SentIds(sent) == {sent[k].id : k \in DOMAIN sent}

\* C33 as stated: an id that an earlier run_once has processed is never sent
\* to Telegram by a later run_once.
C33_AsStated == SentIds(cm.sentNow) \cap cm.processedBefore = {}

Got(i) == mc.calls[i].op = "get" /\ mc.calls[i].ret # 0

\* call i is a _get_client call that opened a connection
Opened(i) == Got(i) /\ mc.calls[i].how # "stored"

\* call i is a _get_client call that tried to connect
TriedConnect(i) == mc.calls[i].op = "get" /\ mc.calls[i].how # "stored"

\* no close() call lies between calls i and j
NoCloseBetween(i, j) == \A k \in (i + 1)..(j - 1) : mc.calls[k].op # "close"

\* the first _get_client call after call i, if there is one, is call j
NextGetAfter(i, j) ==
    /\ i < j
    /\ mc.calls[j].op = "get"
    /\ \A k \in (i + 1)..(j - 1) : mc.calls[k].op # "get"

\* C39: between two close() calls _get_client opens at most one connection
\* and every call that returns a client returns that one; a connect that
\* failed returned no client and the next _get_client call tries to connect
\* again; the first _get_client call after a close() that closed a client
\* tries to connect, and a connection it opens was not returned before.
C39_OneClientPerSession ==
    \A i, j \in DOMAIN mc.calls :
        /\ (i < j /\ Got(i) /\ Got(j) /\ NoCloseBetween(i, j)) =>
              /\ mc.calls[i].ret = mc.calls[j].ret
              /\ ~Opened(j)
        /\ (TriedConnect(i) /\ ~Got(i) /\ NextGetAfter(i, j)) => TriedConnect(j)
        /\ (mc.calls[i].op = "close" /\ NextGetAfter(i, j)) => TriedConnect(j)
        /\ (i < j /\ Got(i) /\ Opened(j)) => mc.calls[i].ret # mc.calls[j].ret

\* C39 witness: a connect failed, the next call connected, a third call got
\* the same client, close() raised while closing it, and the call after it
\* opened a second connection
C39_Witness ==
    /\ Len(mc.calls) = 5
    /\ mc.calls[1] = [op |-> "get", how |-> "connector_error", ret |-> 0]
    /\ mc.calls[2] = [op |-> "get", how |-> "connector_ok", ret |-> 1]
    /\ mc.calls[3] = [op |-> "get", how |-> "stored", ret |-> 1]
    /\ mc.calls[4] = [op |-> "close", how |-> "raised", ret |-> 1]
    /\ mc.calls[5] = [op |-> "get", how |-> "pymysql_ok", ret |-> 2]

=============================================================================
